---- MODULE Spec2Model ----
(***************************************************************************)
(* The skill security scanner (security-scanner/scripts): main, the        *)
(* SkillScanner aggregation (scan_all, scan_skill, _scan_file) and the     *)
(* detect() entry points of the five detectors.                            *)
(*                                                                         *)
(* Severities are written Critical/High/Medium/Low for the source's        *)
(* strings '严重'/'高'/'中'/'低'.  A name (a directory name, a dotted      *)
(* callee name) is a sequence: a directory name is a sequence of           *)
(* characters, a callee name the sequence of its dot-separated parts.      *)
(***************************************************************************)
EXTENDS Integers, Sequences, FiniteSets, Bags, TLC

\* Bounds of the model.
MaxSkills == 2
MaxFiles == 2

\* Program constant: descriptions longer than this are cut and get '...'.
DescLimit == 50

(***************************************************************************)
(* Syntax trees.  A node is a record whose type field names its ast class; *)
(* the nodes findings are positioned at carry their column, and the line   *)
(* of a node is the line of the statement it belongs to.  Identifiers and  *)
(* string literals are strings.                                            *)
(***************************************************************************)
Name(id) == [type |-> "Name", id |-> id]
Attribute(value, attr) == [type |-> "Attribute", value |-> value, attr |-> attr]
Str(s) == [type |-> "Constant", kind |-> "str", value |-> s]
Num(n) == [type |-> "Constant", kind |-> "int", number |-> n]
Tuple(elts) == [type |-> "Tuple", elts |-> elts]
BinOp(left, right) == [type |-> "BinOp", left |-> left, right |-> right]
keyword(arg, value) == [type |-> "keyword", arg |-> arg, value |-> value]
Call(func, args, keywords, col) ==
    [type |-> "Call", func |-> func, args |-> args, keywords |-> keywords, col |-> col]
Subscript(value, slice, col) ==
    [type |-> "Subscript", value |-> value, slice |-> slice, col |-> col]
Expr(value) == [type |-> "Expr", value |-> value]
Assign(targets, value, col) ==
    [type |-> "Assign", targets |-> targets, value |-> value, col |-> col]
\* import a, b: names lists the module names; from m import ...: module is
\* <<m>>, or <<>> for a relative import without a module
Import(names, col) == [type |-> "Import", names |-> names, col |-> col]
ImportFrom(module, col) == [type |-> "ImportFrom", module |-> module, col |-> col]

\* the expression a.b.c for the parts <<"a", "b", "c">>
RECURSIVE Dotted(_)
Dotted(parts) ==
    IF Len(parts) = 1 THEN Name(parts[1])
    ELSE Attribute(Dotted(SubSeq(parts, 1, Len(parts) - 1)), parts[Len(parts)])

\* the child nodes in the order generic_visit walks them (the fields of the
\* ast class in order; a Name, a Constant and an import hold no node that
\* any visitor looks at)
Children(node) ==
    CASE node.type = "Call" -> <<node.func>> \o node.args \o node.keywords
      [] node.type = "keyword" -> <<node.value>>
      [] node.type = "Attribute" -> <<node.value>>
      [] node.type = "Subscript" -> <<node.value, node.slice>>
      [] node.type = "Tuple" -> node.elts
      [] node.type = "BinOp" -> <<node.left, node.right>>
      [] node.type = "Assign" -> node.targets \o <<node.value>>
      [] node.type = "Expr" -> <<node.value>>
      [] OTHER -> <<>>

(***************************************************************************)
(* Strings                                                                 *)
(***************************************************************************)
\* s[i-1:i]
Ch(s, i) == IF i \in 1..Len(s) THEN SubSeq(s, i, i) ELSE ""

\* p in s
Contains(s, p) ==
    \E i \in 1..(Len(s) - Len(p) + 1) : SubSeq(s, i, i + Len(p) - 1) = p

UpperCase == "ABCDEFGHIJKLMNOPQRSTUVWXYZ"
LowerCase == "abcdefghijklmnopqrstuvwxyz"

\* the lower-case letter of each upper-case letter
LowerOf ==
    [c \in {Ch(UpperCase, k) : k \in 1..Len(UpperCase)} |->
        Ch(LowerCase, CHOOSE k \in 1..Len(UpperCase) : Ch(UpperCase, k) = c)]

LowerChar(c) == IF c \in DOMAIN LowerOf THEN LowerOf[c] ELSE c

\* s.lower(), for text in ASCII
RECURSIVE Lower(_)
Lower(s) == IF Len(s) = 0 THEN "" ELSE LowerChar(Ch(s, 1)) \o Lower(Tail(s))

\* the characters str.strip() removes that a line of the text can hold
Whitespace == {" ", "\t", "\r", "\f"}

RECURSIVE LStrip(_)
LStrip(s) == IF Ch(s, 1) \in Whitespace THEN LStrip(Tail(s)) ELSE s

RECURSIVE RStrip(_)
RStrip(s) == IF Ch(s, Len(s)) \in Whitespace THEN RStrip(SubSeq(s, 1, Len(s) - 1)) ELSE s

\* s.strip()
Strip(s) == RStrip(LStrip(s))

\* s.startswith(p)
StartsWith(s, p) == Len(s) >= Len(p) /\ SubSeq(s, 1, Len(p)) = p

\* the home directory os.path.expanduser finds for '~'
Home == "/root"

\* os.path.expanduser: a leading '~' that stands alone or before '/' becomes
\* the home directory; '~name' is left as it is when the password database
\* has no user of that name, which is so for every name drawn here
ExpandUser(path) ==
    IF Ch(path, 1) # "~" THEN path
    ELSE IF Len(path) = 1 \/ Ch(path, 2) = "/"
    THEN Home \o SubSeq(path, 2, Len(path))
    ELSE path

IsDigit(c) == c \in {"0", "1", "2", "3", "4", "5", "6", "7", "8", "9"}

\* s[i-1:i-1+n] is n digits
DigitsAt(s, i, n) == \A k \in i..(i + n - 1) : IsDigit(Ch(s, k))

\* the positions just after an 'http://' or 'https://' of s
AfterScheme(s) ==
    {i + 7 : i \in {j \in 1..(Len(s) - 6) : SubSeq(s, j, j + 6) = "http://"}}
    \cup {i + 8 : i \in {j \in 1..(Len(s) - 7) : SubSeq(s, j, j + 7) = "https://"}}

\* re.search(r'https?://\d{1,3}\.\d{1,3}\.\d{1,3}\.\d{1,3}', s)
SearchIpUrl(s) ==
    \E j \in AfterScheme(s) : \E a, b, c, d \in 1..3 :
        /\ DigitsAt(s, j, a) /\ Ch(s, j + a) = "."
        /\ DigitsAt(s, j + a + 1, b) /\ Ch(s, j + a + 1 + b) = "."
        /\ DigitsAt(s, j + a + b + 2, c) /\ Ch(s, j + a + b + 2 + c) = "."
        /\ DigitsAt(s, j + a + b + c + 3, d)

\* re.search(r'https?://[^\s/:]+:\d{2,5}', s)
SearchPortUrl(s) ==
    \E j \in AfterScheme(s) : \E n \in 1..Len(s) :
        /\ \A k \in j..(j + n - 1) : Ch(s, k) \notin {" ", "\t", "\n", "\r", "\f", "/", ":"}
        /\ Ch(s, j + n) = ":"
        /\ DigitsAt(s, j + n + 1, 2)

\* re.search(r'https?://.*\.onion', s)
SearchOnionUrl(s) ==
    \E j \in AfterScheme(s) : \E k \in j..(Len(s) - 5) :
        /\ SubSeq(s, k, k + 5) = ".onion"
        /\ \A m \in j..(k - 1) : Ch(s, m) # "\n"

(***************************************************************************)
(* Source files.  A script file is a record                                *)
(*   read   : "ok" | "error"     outcome of read_text(encoding='utf-8')    *)
(*   parse  : "ok" | "SyntaxError" | "RecursionError"  outcome of          *)
(*            ast.parse on the text                                        *)
(*   lineno, offset : the SyntaxError's position, <<>> for Python's None   *)
(*   stmts  : the physical lines; line i is [node, len, head]: the         *)
(*            statement the parser builds from the line (NoStmt for a      *)
(*            blank line or a comment), the length of the line, and the    *)
(*            text of the line up to and including its first non-blank     *)
(*            character (all of a blank line, which is short).             *)
(***************************************************************************)
NoStmt == [type |-> "NoStmt"]

TextLine(node, len, head) == [node |-> node, len |-> len, head |-> head]

\* a line that begins with its statement, whose first character is written x
Line(node, len) == TextLine(node, len, "x")

\* the line of a statement that calls the dotted callee on an identifier
Stmt(func, col, len) == Line(Expr(Call(Dotted(func), <<Name("x")>>, <<>>, col)), len)

S_plain  == Stmt(<<"print">>, 0, 8)
S_eval   == Stmt(<<"eval">>, 0, 7)
S_import == Stmt(<<"__import__">>, 4, 18)
S_vars   == Stmt(<<"vars">>, 4, 10)
S_b64    == Stmt(<<"base64", "b64decode">>, 4, 23)
S_get    == Stmt(<<"requests", "get">>, 4, 20)
S_send   == Stmt(<<"socket", "send">>, 0, 14)
S_long   == Stmt(<<"print">>, 0, 201)

Parsed(stmts) ==
    [read |-> "ok", parse |-> "ok", lineno |-> <<>>, offset |-> <<>>, stmts |-> stmts]

F_clean      == Parsed(<<S_plain>>)
F_high       == Parsed(<<S_b64, S_import>>)
F_mixed      == Parsed(<<S_vars, S_get, S_eval>>)
F_medium     == Parsed(<<S_get>>)
F_long       == Parsed(<<S_long, S_send>>)
F_unreadable == [read |-> "error", parse |-> "ok", lineno |-> <<>>, offset |-> <<>>,
                 stmts |-> <<S_eval>>]
F_syntax     == [read |-> "ok", parse |-> "SyntaxError", lineno |-> <<2>>, offset |-> <<5>>,
                 stmts |-> <<S_eval, S_long>>]
F_nullbyte   == [read |-> "ok", parse |-> "SyntaxError", lineno |-> <<>>, offset |-> <<>>,
                 stmts |-> <<S_b64>>]
F_deep       == [read |-> "ok", parse |-> "RecursionError", lineno |-> <<>>, offset |-> <<>>,
                 stmts |-> <<S_plain>>]

FileCatalogue ==
    {F_clean, F_high, F_mixed, F_medium, F_long, F_unreadable, F_syntax, F_nullbyte, F_deep}

(***************************************************************************)
(* Texts for the detectors, each shown above its record.                   *)
(***************************************************************************)
\*   print(a)
\*   print(b)
\*   print(c)
\*   print(d)
\*   eval(user_input)
D_eval5 ==
    Parsed(<< Line(Expr(Call(Name("print"), <<Name("a")>>, <<>>, 0)), 8),
              Line(Expr(Call(Name("print"), <<Name("b")>>, <<>>, 0)), 8),
              Line(Expr(Call(Name("print"), <<Name("c")>>, <<>>, 0)), 8),
              Line(Expr(Call(Name("print"), <<Name("d")>>, <<>>, 0)), 8),
              Line(Expr(Call(Name("eval"), <<Name("user_input")>>, <<>>, 0)), 16) >>)

\*   print(eval(exec(x)), os.system(y))
\*   a.b.eval(x)
\*   subprocess.run(cmd=eval(x))
\*   f().eval(x)
\*   vars(vars(x))
D_nested ==
    Parsed(<< Line(Expr(Call(Name("print"), <<Call(Name("eval"), <<Call(Name("exec"), <<Name("x")>>, <<>>, 11)>>, <<>>, 6), Call(Dotted(<<"os", "system">>), <<Name("y")>>, <<>>, 21)>>, <<>>, 0)), 34),
              Line(Expr(Call(Dotted(<<"a", "b", "eval">>), <<Name("x")>>, <<>>, 0)), 11),
              Line(Expr(Call(Dotted(<<"subprocess", "run">>), <<>>, <<keyword("cmd", Call(Name("eval"), <<Name("x")>>, <<>>, 19))>>, 0)), 27),
              Line(Expr(Call(Attribute(Call(Name("f"), <<>>, <<>>, 0), "eval"), <<Name("x")>>, <<>>, 0)), 11),
              Line(Expr(Call(Name("vars"), <<Call(Name("vars"), <<Name("x")>>, <<>>, 5)>>, <<>>, 0)), 13) >>)

\*   open("~/.ssh/id_rsa")
\*   open("prod.env.key")
\*   Path.open("notes.txt")
\*   open("PROD.ENV")
\*   open(p)
\*   Path.open("/srv/My.Token", "r")
\*   open("")
\*   read("~/.ssh/id_rsa")
\*   open(5, "backup.key")
D_open ==
    Parsed(<< Line(Expr(Call(Name("open"), <<Str("~/.ssh/id_rsa")>>, <<>>, 0)), 21),
              Line(Expr(Call(Name("open"), <<Str("prod.env.key")>>, <<>>, 0)), 20),
              Line(Expr(Call(Dotted(<<"Path", "open">>), <<Str("notes.txt")>>, <<>>, 0)), 22),
              Line(Expr(Call(Name("open"), <<Str("PROD.ENV")>>, <<>>, 0)), 16),
              Line(Expr(Call(Name("open"), <<Name("p")>>, <<>>, 0)), 7),
              Line(Expr(Call(Dotted(<<"Path", "open">>), <<Str("/srv/My.Token"), Str("r")>>, <<>>, 0)), 31),
              Line(Expr(Call(Name("open"), <<Str("")>>, <<>>, 0)), 8),
              Line(Expr(Call(Name("read"), <<Str("~/.ssh/id_rsa")>>, <<>>, 0)), 21),
              Line(Expr(Call(Name("open"), <<Num(5), Str("backup.key")>>, <<>>, 0)), 21) >>)

\*   open("~/.claude/settings.json")
\*   open("~/.config/app.conf")
\*   open("/tmp/~/.config/app.conf")
\*   open("~/.aws/credentials")
\*   open("~")
D_open_home ==
    Parsed(<< Line(Expr(Call(Name("open"), <<Str("~/.claude/settings.json")>>, <<>>, 0)), 31),
              Line(Expr(Call(Name("open"), <<Str("~/.config/app.conf")>>, <<>>, 0)), 26),
              Line(Expr(Call(Name("open"), <<Str("/tmp/~/.config/app.conf")>>, <<>>, 0)), 31),
              Line(Expr(Call(Name("open"), <<Str("~/.aws/credentials")>>, <<>>, 0)), 26),
              Line(Expr(Call(Name("open"), <<Str("~")>>, <<>>, 0)), 9) >>)

\*   os.getenv("API_KEY")
\*   os.environ.get("Db_Password")
\*   os.environ["AWS_REGION"]
\*   os.environ["HOME"]
\*   os.getenv("PATH")
\*   os.environ.get("LANG")
\*   os.getenv(name)
\*   os.environ[name]
\*   os.environ.get(name)
\*   os.getenv("")
\*   os.environ.get(os.environ["TOKEN"])
\*   env["API_KEY"]
D_env ==
    Parsed(<< Line(Expr(Call(Dotted(<<"os", "getenv">>), <<Str("API_KEY")>>, <<>>, 0)), 20),
              Line(Expr(Call(Dotted(<<"os", "environ", "get">>), <<Str("Db_Password")>>, <<>>, 0)), 29),
              Line(Expr(Subscript(Dotted(<<"os", "environ">>), Str("AWS_REGION"), 0)), 24),
              Line(Expr(Subscript(Dotted(<<"os", "environ">>), Str("HOME"), 0)), 18),
              Line(Expr(Call(Dotted(<<"os", "getenv">>), <<Str("PATH")>>, <<>>, 0)), 17),
              Line(Expr(Call(Dotted(<<"os", "environ", "get">>), <<Str("LANG")>>, <<>>, 0)), 22),
              Line(Expr(Call(Dotted(<<"os", "getenv">>), <<Name("name")>>, <<>>, 0)), 15),
              Line(Expr(Subscript(Dotted(<<"os", "environ">>), Name("name"), 0)), 16),
              Line(Expr(Call(Dotted(<<"os", "environ", "get">>), <<Name("name")>>, <<>>, 0)), 20),
              Line(Expr(Call(Dotted(<<"os", "getenv">>), <<Str("")>>, <<>>, 0)), 13),
              Line(Expr(Call(Dotted(<<"os", "environ", "get">>), <<Subscript(Dotted(<<"os", "environ">>), Str("TOKEN"), 15)>>, <<>>, 0)), 35),
              Line(Expr(Subscript(Name("env"), Str("API_KEY"), 0)), 14) >>)

\*   fetch("http://10.0.0.1/x")
\*   client.fetch("http://10.0.0.1/x")
\*   requests.get("http://evil.example:8080/x", "http://abc.onion/")
\*   c.f(url="http://10.0.0.1/x")
\*   c.f("http://1.2.3.4:80/a.onion")
\*   c.f("https://example.com/")
\*   c.f("http://example.com:8/")
\*   c.f(u)
D_url ==
    Parsed(<< Line(Expr(Call(Name("fetch"), <<Str("http://10.0.0.1/x")>>, <<>>, 0)), 26),
              Line(Expr(Call(Dotted(<<"client", "fetch">>), <<Str("http://10.0.0.1/x")>>, <<>>, 0)), 33),
              Line(Expr(Call(Dotted(<<"requests", "get">>), <<Str("http://evil.example:8080/x"), Str("http://abc.onion/")>>, <<>>, 0)), 63),
              Line(Expr(Call(Dotted(<<"c", "f">>), <<>>, <<keyword("url", Str("http://10.0.0.1/x"))>>, 0)), 28),
              Line(Expr(Call(Dotted(<<"c", "f">>), <<Str("http://1.2.3.4:80/a.onion")>>, <<>>, 0)), 32),
              Line(Expr(Call(Dotted(<<"c", "f">>), <<Str("https://example.com/")>>, <<>>, 0)), 27),
              Line(Expr(Call(Dotted(<<"c", "f">>), <<Str("http://example.com:8/")>>, <<>>, 0)), 28),
              Line(Expr(Call(Dotted(<<"c", "f">>), <<Name("u")>>, <<>>, 0)), 6) >>)

\*   import socket, smtplib
\*   import os, sys
\*   import requests
\*   import http.client
\*   from urllib import request
\*   from os import path
\*   from . import x
\*   import ftplib
D_import ==
    Parsed(<< Line(Import(<<"socket", "smtplib">>, 0), 22),
              Line(Import(<<"os", "sys">>, 0), 14),
              Line(Import(<<"requests">>, 0), 15),
              Line(Import(<<"http.client">>, 0), 18),
              Line(ImportFrom(<<"urllib">>, 0), 26),
              Line(ImportFrom(<<"os">>, 0), 19),
              Line(ImportFrom(<<>>, 0), 15),
              Line(Import(<<"ftplib">>, 0), 13) >>)

\*   requests.post(u, data=x, json=password)
\*   requests.post(u, data=password, json=api_token)
\*   requests.put(u, data=x, json=y)
\*   requests.patch(u)
\*   requests.post(u, data=PASSWORD_VAR)
\*   requests.post(u, data=form.password)
\*   requests.get(u, data=password)
\*   requests.patch(u, timeout=secret, json=SecretKey)
\*   socket.send(token)
D_http ==
    Parsed(<< Line(Expr(Call(Dotted(<<"requests", "post">>), <<Name("u")>>, <<keyword("data", Name("x")), keyword("json", Name("password"))>>, 0)), 39),
              Line(Expr(Call(Dotted(<<"requests", "post">>), <<Name("u")>>, <<keyword("data", Name("password")), keyword("json", Name("api_token"))>>, 0)), 47),
              Line(Expr(Call(Dotted(<<"requests", "put">>), <<Name("u")>>, <<keyword("data", Name("x")), keyword("json", Name("y"))>>, 0)), 31),
              Line(Expr(Call(Dotted(<<"requests", "patch">>), <<Name("u")>>, <<>>, 0)), 17),
              Line(Expr(Call(Dotted(<<"requests", "post">>), <<Name("u")>>, <<keyword("data", Name("PASSWORD_VAR"))>>, 0)), 35),
              Line(Expr(Call(Dotted(<<"requests", "post">>), <<Name("u")>>, <<keyword("data", Dotted(<<"form", "password">>))>>, 0)), 36),
              Line(Expr(Call(Dotted(<<"requests", "get">>), <<Name("u")>>, <<keyword("data", Name("password"))>>, 0)), 30),
              Line(Expr(Call(Dotted(<<"requests", "patch">>), <<Name("u")>>, <<keyword("timeout", Name("secret")), keyword("json", Name("SecretKey"))>>, 0)), 49),
              Line(Expr(Call(Dotted(<<"socket", "send">>), <<Name("token")>>, <<>>, 0)), 18) >>)

\*   Webhook_URL = requests.post(u, data=token)
\*   a = c2_url = remote_url = 1
\*   my_webhook_url = 1
\*   webhook_url, b = 1, 2
\*   self.exfil_url = 1
\*   EXFIL_URL = socket.send(x)
\*   url = requests.put(u, json=y)
D_assign ==
    Parsed(<< Line(Assign(<<Name("Webhook_URL")>>, Call(Dotted(<<"requests", "post">>), <<Name("u")>>, <<keyword("data", Name("token"))>>, 14), 0), 42),
              Line(Assign(<<Name("a"), Name("c2_url"), Name("remote_url")>>, Num(1), 0), 27),
              Line(Assign(<<Name("my_webhook_url")>>, Num(1), 0), 18),
              Line(Assign(<<Tuple(<<Name("webhook_url"), Name("b")>>)>>, Tuple(<<Num(1), Num(2)>>), 0), 21),
              Line(Assign(<<Dotted(<<"self", "exfil_url">>)>>, Num(1), 0), 18),
              Line(Assign(<<Name("EXFIL_URL")>>, Call(Dotted(<<"socket", "send">>), <<Name("x")>>, <<>>, 12), 0), 26),
              Line(Assign(<<Name("url")>>, Call(Dotted(<<"requests", "put">>), <<Name("u")>>, <<keyword("json", Name("y"))>>, 6), 0), 29) >>)

\*   print(x)  #ccccccccccccccccccc... (200 characters)
\*   print(x)  #ccccccccccccccccccc... (201 characters)
\*   print(x)  #ccccccccccccccccccc... (250 characters)
\*   #ccccccccccccccccccccccccccccc... (300 characters)
\*       #ccccccccccccccccccccccccc... (201 characters)
\*   #ccccccccc
\*   print(y)
\*
\*   \t#ccccccccccccccccccccccccccc... (201 characters)
\*   print("#")                    ... (201 characters)
\*
D_long ==
    Parsed(<< Line(Expr(Call(Name("print"), <<Name("x")>>, <<>>, 0)), 200),
              Line(Expr(Call(Name("print"), <<Name("x")>>, <<>>, 0)), 201),
              Line(Expr(Call(Name("print"), <<Name("x")>>, <<>>, 0)), 250),
              TextLine(NoStmt, 300, "#"),
              TextLine(NoStmt, 201, "    #"),
              TextLine(NoStmt, 10, "#"),
              Line(Expr(Call(Name("print"), <<Name("y")>>, <<>>, 0)), 8),
              TextLine(NoStmt, 0, ""),
              TextLine(NoStmt, 201, "\t#"),
              Line(Expr(Call(Name("print"), <<Str("#")>>, <<>>, 0)), 201),
              TextLine(NoStmt, 3, "   ") >>)

\*   chr(chr(chr(chr(chr(x)))))
\*   chr(chr(chr(chr(x))))
\*   chr(chr(chr(x)))
\*   chr(a)+chr(b)+chr(c)+chr(d)
\*   f(chr(a), chr(b), chr(c), chr(d))
\*   chr(f(chr(a), chr(b), chr(c)))
\*   f().chr(chr(a), chr(b), chr(c), chr(d))
\*   s.chr(chr(a), chr(b), chr(c), chr(d))
\*   ord(chr(chr(chr(chr(x)))))
\*   chr(x=chr(chr(chr(a))))
D_chr ==
    Parsed(<< Line(Expr(Call(Name("chr"), <<Call(Name("chr"), <<Call(Name("chr"), <<Call(Name("chr"), <<Call(Name("chr"), <<Name("x")>>, <<>>, 16)>>, <<>>, 12)>>, <<>>, 8)>>, <<>>, 4)>>, <<>>, 0)), 26),
              Line(Expr(Call(Name("chr"), <<Call(Name("chr"), <<Call(Name("chr"), <<Call(Name("chr"), <<Name("x")>>, <<>>, 12)>>, <<>>, 8)>>, <<>>, 4)>>, <<>>, 0)), 21),
              Line(Expr(Call(Name("chr"), <<Call(Name("chr"), <<Call(Name("chr"), <<Name("x")>>, <<>>, 8)>>, <<>>, 4)>>, <<>>, 0)), 16),
              Line(Expr(BinOp(BinOp(BinOp(Call(Name("chr"), <<Name("a")>>, <<>>, 0), Call(Name("chr"), <<Name("b")>>, <<>>, 7)), Call(Name("chr"), <<Name("c")>>, <<>>, 14)), Call(Name("chr"), <<Name("d")>>, <<>>, 21))), 27),
              Line(Expr(Call(Name("f"), <<Call(Name("chr"), <<Name("a")>>, <<>>, 2), Call(Name("chr"), <<Name("b")>>, <<>>, 10), Call(Name("chr"), <<Name("c")>>, <<>>, 18), Call(Name("chr"), <<Name("d")>>, <<>>, 26)>>, <<>>, 0)), 33),
              Line(Expr(Call(Name("chr"), <<Call(Name("f"), <<Call(Name("chr"), <<Name("a")>>, <<>>, 6), Call(Name("chr"), <<Name("b")>>, <<>>, 14), Call(Name("chr"), <<Name("c")>>, <<>>, 22)>>, <<>>, 4)>>, <<>>, 0)), 30),
              Line(Expr(Call(Attribute(Call(Name("f"), <<>>, <<>>, 0), "chr"), <<Call(Name("chr"), <<Name("a")>>, <<>>, 8), Call(Name("chr"), <<Name("b")>>, <<>>, 16), Call(Name("chr"), <<Name("c")>>, <<>>, 24), Call(Name("chr"), <<Name("d")>>, <<>>, 32)>>, <<>>, 0)), 39),
              Line(Expr(Call(Dotted(<<"s", "chr">>), <<Call(Name("chr"), <<Name("a")>>, <<>>, 6), Call(Name("chr"), <<Name("b")>>, <<>>, 14), Call(Name("chr"), <<Name("c")>>, <<>>, 22), Call(Name("chr"), <<Name("d")>>, <<>>, 30)>>, <<>>, 0)), 37),
              Line(Expr(Call(Name("ord"), <<Call(Name("chr"), <<Call(Name("chr"), <<Call(Name("chr"), <<Call(Name("chr"), <<Name("x")>>, <<>>, 16)>>, <<>>, 12)>>, <<>>, 8)>>, <<>>, 4)>>, <<>>, 0)), 26),
              Line(Expr(Call(Name("chr"), <<>>, <<keyword("x", Call(Name("chr"), <<Call(Name("chr"), <<Call(Name("chr"), <<Name("a")>>, <<>>, 14)>>, <<>>, 10)>>, <<>>, 6))>>, 0)), 23) >>)

\*   compile(src, "f", "exec")
\*   x = compile(a, b, c)
\*   re.compile(p)
\*   eval(compile(x, "s", "exec"))
\*   compile(compile(x))
\*   builtins.compile(x)
\*   compile(open("my.key"))
D_compile ==
    Parsed(<< Line(Expr(Call(Name("compile"), <<Name("src"), Str("f"), Str("exec")>>, <<>>, 0)), 25),
              Line(Assign(<<Name("x")>>, Call(Name("compile"), <<Name("a"), Name("b"), Name("c")>>, <<>>, 4), 0), 20),
              Line(Expr(Call(Dotted(<<"re", "compile">>), <<Name("p")>>, <<>>, 0)), 13),
              Line(Expr(Call(Name("eval"), <<Call(Name("compile"), <<Name("x"), Str("s"), Str("exec")>>, <<>>, 5)>>, <<>>, 0)), 29),
              Line(Expr(Call(Name("compile"), <<Call(Name("compile"), <<Name("x")>>, <<>>, 8)>>, <<>>, 0)), 19),
              Line(Expr(Call(Dotted(<<"builtins", "compile">>), <<Name("x")>>, <<>>, 0)), 19),
              Line(Expr(Call(Name("compile"), <<Call(Name("open"), <<Str("my.key")>>, <<>>, 8)>>, <<>>, 0)), 23) >>)

\*   f().eval(x)
\*   items[0].exec(x)
\*   a.b.eval(x)
\*   x.eval(y)
\*   f().os.system(x)
\*   f().g().vars()
\*   (a+b).compile(x)
\*   "s".globals()
\*   f().x.eval(y)
\*   eval(x)
\*   os.system(x)
D_method ==
    Parsed(<< Line(Expr(Call(Attribute(Call(Name("f"), <<>>, <<>>, 0), "eval"), <<Name("x")>>, <<>>, 0)), 11),
              Line(Expr(Call(Attribute(Subscript(Name("items"), Num(0), 0), "exec"), <<Name("x")>>, <<>>, 0)), 16),
              Line(Expr(Call(Dotted(<<"a", "b", "eval">>), <<Name("x")>>, <<>>, 0)), 11),
              Line(Expr(Call(Dotted(<<"x", "eval">>), <<Name("y")>>, <<>>, 0)), 9),
              Line(Expr(Call(Attribute(Attribute(Call(Name("f"), <<>>, <<>>, 0), "os"), "system"), <<Name("x")>>, <<>>, 0)), 16),
              Line(Expr(Call(Attribute(Call(Attribute(Call(Name("f"), <<>>, <<>>, 0), "g"), <<>>, <<>>, 0), "vars"), <<>>, <<>>, 0)), 14),
              Line(Expr(Call(Attribute(BinOp(Name("a"), Name("b")), "compile"), <<Name("x")>>, <<>>, 0)), 16),
              Line(Expr(Call(Attribute(Str("s"), "globals"), <<>>, <<>>, 0)), 13),
              Line(Expr(Call(Attribute(Attribute(Call(Name("f"), <<>>, <<>>, 0), "x"), "eval"), <<Name("y")>>, <<>>, 0)), 13),
              Line(Expr(Call(Name("eval"), <<Name("x")>>, <<>>, 0)), 7),
              Line(Expr(Call(Dotted(<<"os", "system">>), <<Name("x")>>, <<>>, 0)), 12) >>)

\* the texts the detectors are run on one by one
Sources ==
    {F_clean, F_high, F_mixed, F_medium, F_long, F_syntax, F_nullbyte, F_deep,
     D_eval5, D_nested, D_open, D_open_home, D_env, D_url, D_import, D_http, D_assign,
     D_long, D_chr, D_compile, D_method}

(***************************************************************************)
(* Detectors.  A detector's visit yields findings [name, severity, line,   *)
(* col, details]; to_dict adds the detector tag.  details holds the table  *)
(* description and the program values the message names (a path, a key, a  *)
(* variable, a URL), and is <<>> for the other messages.                   *)
(***************************************************************************)
Finding(name, severity, line, col, details) ==
    [name |-> name, severity |-> severity, line |-> line, col |-> col, details |-> details]

\* x or 0, for an optional integer
OrZero(opt) == IF opt = <<>> THEN 0 ELSE opt[1]

\* the attribute names of a chain, innermost first, then the identifier the
\* chain starts from; nothing is added for a chain that starts from another
\* kind of expression
RECURSIVE ChainParts(_)
ChainParts(curr) ==
    IF curr.type = "Attribute" THEN ChainParts(curr.value) \o <<curr.attr>>
    ELSE IF curr.type = "Name" THEN <<curr.id>>
    ELSE <<>>

\* _get_function_name: the parts of the dotted name, root first; <<>> for ''
GetFunctionName(node) ==
    IF node.func.type = "Name" THEN <<node.func.id>>
    ELSE IF node.func.type = "Attribute" THEN ChainParts(node.func)
    ELSE <<>>

DANGEROUS_FUNCTIONS ==
    { <<<<"eval">>, "Critical">>, <<<<"exec">>, "Critical">>, <<<<"compile">>, "Critical">>,
      <<<<"__import__">>, "High">>,
      <<<<"os", "system">>, "Critical">>, <<<<"subprocess", "run">>, "Critical">>,
      <<<<"subprocess", "call">>, "Critical">>, <<<<"subprocess", "Popen">>, "Critical">>,
      <<<<"subprocess", "check_output">>, "Critical">>,
      <<<<"pickle", "loads">>, "Critical">>, <<<<"pickle", "load">>, "Critical">>,
      <<<<"marshal", "loads">>, "Critical">>, <<<<"marshal", "load">>, "Critical">>,
      <<<<"globals">>, "Medium">>, <<<<"locals">>, "Medium">>, <<<<"vars">>, "Low">> }

NETWORK_FUNCTIONS ==
    { <<<<"requests", "get">>, "Medium">>, <<<<"requests", "post">>, "Medium">>,
      <<<<"requests", "put">>, "Medium">>, <<<<"requests", "delete">>, "Medium">>,
      <<<<"requests", "patch">>, "Medium">>, <<<<"requests", "request">>, "Medium">>,
      <<<<"urllib", "request", "urlopen">>, "Medium">>,
      <<<<"urllib", "request", "Request">>, "Medium">>,
      <<<<"urllib", "request", "urlretrieve">>, "Medium">>,
      <<<<"httpx", "get">>, "Medium">>, <<<<"httpx", "post">>, "Medium">>,
      <<<<"httpx", "request">>, "Medium">>,
      <<<<"socket", "socket">>, "Medium">>, <<<<"socket", "connect">>, "Medium">>,
      <<<<"os", "popen">>, "High">> }

InTable(table, name) == \E e \in table : e[1] = name
Lookup(table, name) == (CHOOSE e \in table : e[1] = name)[2]

DangerousVisitCall(node, line) ==
    LET func_name == GetFunctionName(node)
    IN  IF InTable(DANGEROUS_FUNCTIONS, func_name)
        THEN <<Finding(func_name, Lookup(DANGEROUS_FUNCTIONS, func_name), line, node.col, <<>>)>>
        ELSE <<>>

\* Program constant: a URL longer than this is cut in the message.
UrlShown == 50

SUSPICIOUS_URL_PATTERNS == <<"direct IP address", "non-standard port", "Tor network">>

\* re.search of the k-th pattern
SearchPattern(k, url) ==
    CASE k = 1 -> SearchIpUrl(url)
      [] k = 2 -> SearchPortUrl(url)
      [] k = 3 -> SearchOnionUrl(url)

\* _check_suspicious_url: the finding of the first pattern found in url
RECURSIVE CheckSuspiciousUrlFrom(_, _, _)
CheckSuspiciousUrlFrom(k, url, line) ==
    IF k > Len(SUSPICIOUS_URL_PATTERNS) THEN <<>>
    ELSE IF SearchPattern(k, url)
    THEN <<Finding(<<"suspicious_url">>, "Medium", line, 0,
                   <<SUSPICIOUS_URL_PATTERNS[k],
                     IF Len(url) > UrlShown THEN SubSeq(url, 1, UrlShown) \o "..." ELSE url>>)>>
    ELSE CheckSuspiciousUrlFrom(k + 1, url, line)

CheckSuspiciousUrl(url, line) == CheckSuspiciousUrlFrom(1, url, line)

\* for arg in node.args, from the i-th on: the string constants are checked
RECURSIVE CheckUrlArgs(_, _, _)
CheckUrlArgs(args, i, line) ==
    IF i > Len(args) THEN <<>>
    ELSE (IF args[i].type = "Constant" /\ args[i].kind = "str"
          THEN CheckSuspiciousUrl(args[i].value, line)
          ELSE <<>>) \o CheckUrlArgs(args, i + 1, line)

NetworkVisitCall(node, line) ==
    LET func_name == GetFunctionName(node)
    IN  (IF InTable(NETWORK_FUNCTIONS, func_name)
         THEN <<Finding(func_name, Lookup(NETWORK_FUNCTIONS, func_name), line, node.col, <<>>)>>
         ELSE <<>>)
        \o (IF node.func.type = "Attribute" THEN CheckUrlArgs(node.args, 1, line) ELSE <<>>)

\* as NetworkVisitImport, the statement reported once for its first
\* networking module
RECURSIVE NetworkVisitImportOnce(_, _, _)
NetworkVisitImportOnce(node, i, line) ==
    IF i > Len(node.names) THEN <<>>
    ELSE IF node.names[i] \in {"socket", "http", "ftplib", "smtplib"}
    THEN <<Finding(<<"import " \o node.names[i]>>, "Low", line, node.col, <<node.names[i]>>)>>
    ELSE NetworkVisitImportOnce(node, i + 1, line)

\* visit_Import: for alias in node.names, from the i-th on
RECURSIVE NetworkVisitImport(_, _, _)
NetworkVisitImport(node, i, line) ==
    IF i > Len(node.names) THEN <<>>
    ELSE (IF node.names[i] \in {"socket", "http", "ftplib", "smtplib"}
          THEN <<Finding(<<"import " \o node.names[i]>>, "Low", line, node.col,
                         <<node.names[i]>>)>>
          ELSE <<>>) \o NetworkVisitImport(node, i + 1, line)

NetworkVisitImportFrom(node, line) ==
    IF node.module # <<>> /\ node.module[1] \in {"socket", "urllib", "http", "requests", "httpx"}
    THEN <<Finding(<<"from " \o node.module[1] \o " import ...">>, "Low", line, node.col,
                   node.module)>>
    ELSE <<>>

\* the ordered table of (pattern, description, severity)
SENSITIVE_PATTERNS ==
    << <<"~/.ssh/", "SSH key directory", "Critical">>,
       <<".ssh", "SSH key directory", "Critical">>,
       <<"~/.aws/", "AWS credentials directory", "Critical">>,
       <<".aws", "AWS credentials directory", "Critical">>,
       <<"id_rsa", "SSH private key file", "Critical">>,
       <<"id_ed25519", "SSH private key file", "Critical">>,
       <<"known_hosts", "SSH known hosts file", "High">>,
       <<"credentials", "credentials file", "High">>,
       <<".env", "environment file", "Medium">>,
       <<".secret", "secret file", "High">>,
       <<".token", "token file", "High">>,
       <<".key", "key file", "High">>,
       <<"password", "password file", "High">>,
       <<"~/.claude/", "Claude Code configuration directory", "High">>,
       <<"~/.config/", "system configuration directory", "Medium">> >>

\* _get_string_value: <<s>> for a string constant, <<>> for None
GetStringValue(node) ==
    IF node.type = "Constant" /\ node.kind = "str" THEN <<node.value>> ELSE <<>>

\* as IsSensitiveEnvKey, the key compared as written
IsSensitiveEnvKeyCased(key) ==
    \E kw \in {"key", "secret", "token", "password", "credential",
               "api", "aws", "ssh", "private", "auth"} : Contains(key, kw)

IsSensitiveEnvKey(key) ==
    LET key_lower == Lower(key)
    IN  \E kw \in {"key", "secret", "token", "password", "credential",
                   "api", "aws", "ssh", "private", "auth"} : Contains(key_lower, kw)

\* pattern.lower() of each entry
PatternLower == [k \in DOMAIN SENSITIVE_PATTERNS |-> Lower(SENSITIVE_PATTERNS[k][1])]

\* the finding of the k-th entry
SensitiveFile(k, path, line, col) ==
    Finding(<<"sensitive_file">>, SENSITIVE_PATTERNS[k][3], line, col,
            <<SENSITIVE_PATTERNS[k][2], path>>)

\* as CheckSensitivePath, the finding taken from the first of the most
\* severe entries found in the expanded path
CheckSensitivePathWorst(path, line, col) ==
    LET expanded_path == ExpandUser(Lower(path))
        found == {k \in DOMAIN SENSITIVE_PATTERNS : Contains(expanded_path, PatternLower[k])}
        Of(sev) == {k \in found : SENSITIVE_PATTERNS[k][3] = sev}
        worst == IF Of("Critical") # {} THEN Of("Critical")
                 ELSE IF Of("High") # {} THEN Of("High") ELSE found
    IN  IF found = {} THEN <<>>
        ELSE <<SensitiveFile(CHOOSE k \in worst : \A j \in worst : k <= j, path, line, col)>>

\* _check_sensitive_path, the loop from the k-th entry on: the first entry
\* found in the expanded path gives the finding and ends the loop
RECURSIVE CheckSensitivePathFrom(_, _, _, _, _)
CheckSensitivePathFrom(k, expanded_path, path, line, col) ==
    IF k > Len(SENSITIVE_PATTERNS) THEN <<>>
    ELSE IF Contains(expanded_path, PatternLower[k])
    THEN <<SensitiveFile(k, path, line, col)>>
    ELSE CheckSensitivePathFrom(k + 1, expanded_path, path, line, col)

CheckSensitivePath(path, line, col) ==
    CheckSensitivePathFrom(1, ExpandUser(Lower(path)), path, line, col)

CheckFileAccess(node, line) ==
    IF node.args # <<>> /\ node.args[1].type = "Constant"
    THEN LET path == GetStringValue(node.args[1])
         IN  IF path # <<>> /\ Len(path[1]) > 0
             THEN CheckSensitivePath(path[1], line, node.col)
             ELSE <<>>
    ELSE <<>>

\* the finding both environment rules append for a sensitive key
EnvAccess(key, line, col) ==
    IF key # <<>> /\ Len(key[1]) > 0 /\ IsSensitiveEnvKey(key[1])
    THEN <<Finding(<<"env_access">>, "High", line, col, key)>>
    ELSE <<>>

CheckEnvAccess(node, line) ==
    IF node.args # <<>> /\ node.args[1].type = "Constant"
    THEN EnvAccess(GetStringValue(node.args[1]), line, node.col)
    ELSE <<>>

FileOpsVisitCall(node, line) ==
    LET func_name == GetFunctionName(node)
    IN  IF func_name \in {<<"open">>, <<"Path", "open">>}
        THEN CheckFileAccess(node, line)
        ELSE IF func_name \in {<<"os", "getenv">>, <<"os", "environ", "get">>,
                               <<"os", "environ", "__getitem__">>}
        THEN CheckEnvAccess(node, line)
        ELSE <<>>

\* visit_Subscript: os.environ[...]
FileOpsVisitSubscript(node, line) ==
    IF /\ node.value.type = "Attribute"
       /\ node.value.value.type = "Name"
       /\ node.value.value.id = "os"
       /\ node.value.attr = "environ"
    THEN EnvAccess(GetStringValue(node.slice), line, node.col)
    ELSE <<>>

\* Program constant: more chr() calls than this under one chr() call are
\* reported.
ChrLimit == 3

\* _count_chr_in_scope: the calls of the bare name chr among node and the
\* nodes below it (ast.walk)
RECURSIVE CountChr(_)
RECURSIVE CountChrIn(_, _)
CountChr(node) ==
    (IF node.type = "Call" /\ node.func.type = "Name" /\ node.func.id = "chr" THEN 1 ELSE 0)
    + CountChrIn(Children(node), 1)
CountChrIn(nodes, i) ==
    IF i > Len(nodes) THEN 0 ELSE CountChr(nodes[i]) + CountChrIn(nodes, i + 1)

\* _check_char_conversion
CheckCharConversion(node, func_name, line) ==
    IF func_name = <<"chr">> /\ CountChr(node) > ChrLimit
    THEN <<Finding(<<"multiple_chr">>, "High", line, node.col, <<CountChr(node)>>)>>
    ELSE <<>>

\* as ObfuscationVisitCall, without the compile rule
ObfuscationVisitCallNoCompile(node, line) ==
    LET func_name == GetFunctionName(node)
    IN  IF func_name \in {<<"base64", "b64decode">>, <<"base64", "standard_b64decode">>}
        THEN <<Finding(<<"base64_decode">>, "High", line, node.col, <<>>)>>
        ELSE IF func_name \in {<<"chr">>, <<"ord">>}
        THEN CheckCharConversion(node, func_name, line)
        ELSE IF func_name \in {<<"bytes", "fromhex">>, <<"bytearray", "fromhex">>}
        THEN <<Finding(<<"hex_bytes">>, "High", line, node.col, <<>>)>>
        ELSE <<>>

ObfuscationVisitCall(node, line) ==
    LET func_name == GetFunctionName(node)
    IN  IF func_name \in {<<"base64", "b64decode">>, <<"base64", "standard_b64decode">>}
        THEN <<Finding(<<"base64_decode">>, "High", line, node.col, <<>>)>>
        ELSE IF func_name \in {<<"chr">>, <<"ord">>}
        THEN CheckCharConversion(node, func_name, line)
        ELSE IF func_name = <<"compile">>
        THEN <<Finding(<<"compile_call">>, "High", line, node.col, <<>>)>>
        ELSE IF func_name \in {<<"bytes", "fromhex">>, <<"bytearray", "fromhex">>}
        THEN <<Finding(<<"hex_bytes">>, "High", line, node.col, <<>>)>>
        ELSE <<>>

\* Program constant: lines longer than this are reported.
LongLine == 200

\* as CheckLongLines, a line of LongLine characters reported too
RECURSIVE CheckLongLinesFromLimit(_, _)
CheckLongLinesFromLimit(stmts, i) ==
    IF i > Len(stmts) THEN <<>>
    ELSE (IF StartsWith(Strip(stmts[i].head), "#") THEN <<>>
          ELSE IF stmts[i].len >= LongLine
          THEN <<Finding(<<"long_line">>, "Low", i, 0, <<stmts[i].len>>)>>
          ELSE <<>>) \o CheckLongLinesFromLimit(stmts, i + 1)

\* _check_long_lines, from line i on.  line.strip().startswith('#') is
\* decided by the head of the line: what strip() leaves of the line begins
\* with what it leaves of the head.
RECURSIVE CheckLongLines(_, _)
CheckLongLines(stmts, i) ==
    IF i > Len(stmts) THEN <<>>
    ELSE (IF StartsWith(Strip(stmts[i].head), "#") THEN <<>>
          ELSE IF stmts[i].len > LongLine
          THEN <<Finding(<<"long_line">>, "Low", i, 0, <<stmts[i].len>>)>>
          ELSE <<>>) \o CheckLongLines(stmts, i + 1)

\* any(kw in var_name for kw in suspicious_keywords)
NamesSensitiveData(var_name) ==
    \E kw \in {"password", "token", "key", "secret", "credential"} : Contains(var_name, kw)

\* as CheckHttpDataSendFrom, the loop going on after a Critical finding
RECURSIVE CheckHttpDataSendNoReturn(_, _, _, _)
CheckHttpDataSendNoReturn(node, line, k, has_data_payload) ==
    IF k > Len(node.keywords)
    THEN IF has_data_payload
         THEN <<Finding(<<"http_data_send">>, "Medium", line, node.col, <<>>)>>
         ELSE <<>>
    ELSE LET value == node.keywords[k].value
         IN  IF node.keywords[k].arg \in {"data", "json"}
             THEN (IF value.type = "Name" /\ NamesSensitiveData(Lower(value.id))
                   THEN <<Finding(<<"http_exfil">>, "Critical", line, node.col, <<value.id>>)>>
                   ELSE <<>>) \o CheckHttpDataSendNoReturn(node, line, k + 1, TRUE)
             ELSE CheckHttpDataSendNoReturn(node, line, k + 1, has_data_payload)

\* _check_http_data_send, the loop over node.keywords from the k-th on and
\* what follows it
RECURSIVE CheckHttpDataSendFrom(_, _, _, _)
CheckHttpDataSendFrom(node, line, k, has_data_payload) ==
    IF k > Len(node.keywords)
    THEN IF has_data_payload
         THEN <<Finding(<<"http_data_send">>, "Medium", line, node.col, <<>>)>>
         ELSE <<>>
    ELSE LET value == node.keywords[k].value
         IN  IF node.keywords[k].arg \in {"data", "json"}
             THEN IF value.type = "Name" /\ NamesSensitiveData(Lower(value.id))
                  THEN <<Finding(<<"http_exfil">>, "Critical", line, node.col, <<value.id>>)>>
                  ELSE CheckHttpDataSendFrom(node, line, k + 1, TRUE)
             ELSE CheckHttpDataSendFrom(node, line, k + 1, has_data_payload)

CheckHttpDataSend(node, line) == CheckHttpDataSendFrom(node, line, 1, FALSE)

DataExfilVisitCall(node, line) ==
    LET func_name == GetFunctionName(node)
    IN  IF func_name \in {<<"requests", "post">>, <<"requests", "put">>, <<"requests", "patch">>}
        THEN CheckHttpDataSend(node, line)
        ELSE IF func_name \in {<<"socket", "send">>, <<"socket", "sendall">>,
                               <<"socket", "sendto">>}
        THEN <<Finding(<<"socket_send">>, "Critical", line, node.col, <<>>)>>
        ELSE <<>>

\* as DataExfilVisitAssign, the target name compared as written
RECURSIVE DataExfilVisitAssignCased(_, _, _)
DataExfilVisitAssignCased(node, i, line) ==
    IF i > Len(node.targets) THEN <<>>
    ELSE (IF /\ node.targets[i].type = "Name"
             /\ node.targets[i].id \in {"webhook_url", "exfil_url", "c2_url", "remote_url"}
          THEN <<Finding(<<"suspicious_var">>, "High", line, node.col, <<node.targets[i].id>>)>>
          ELSE <<>>) \o DataExfilVisitAssignCased(node, i + 1, line)

\* visit_Assign: for target in node.targets, from the i-th on
RECURSIVE DataExfilVisitAssign(_, _, _)
DataExfilVisitAssign(node, i, line) ==
    IF i > Len(node.targets) THEN <<>>
    ELSE (IF /\ node.targets[i].type = "Name"
             /\ Lower(node.targets[i].id) \in {"webhook_url", "exfil_url", "c2_url", "remote_url"}
          THEN <<Finding(<<"suspicious_var">>, "High", line, node.col, <<node.targets[i].id>>)>>
          ELSE <<>>) \o DataExfilVisitAssign(node, i + 1, line)

\* visit_Call of detector d at a call of the given line
VisitCall(d, node, line) ==
    CASE d = "dangerous_calls" -> DangerousVisitCall(node, line)
      [] d = "network_ops" -> NetworkVisitCall(node, line)
      [] d = "file_ops" -> FileOpsVisitCall(node, line)
      [] d = "obfuscation" -> ObfuscationVisitCall(node, line)
      [] d = "data_exfil" -> DataExfilVisitCall(node, line)

\* what the visit_<class> method of detector d appends at the node itself;
\* nothing where the detector has no method for the class
VisitMethod(d, node, line) ==
    CASE node.type = "Call" -> VisitCall(d, node, line)
      [] node.type = "Subscript" /\ d = "file_ops" -> FileOpsVisitSubscript(node, line)
      [] node.type = "Assign" /\ d = "data_exfil" -> DataExfilVisitAssign(node, 1, line)
      [] node.type = "Import" /\ d = "network_ops" -> NetworkVisitImport(node, 1, line)
      [] node.type = "ImportFrom" /\ d = "network_ops" -> NetworkVisitImportFrom(node, line)
      [] OTHER -> <<>>

\* as VisitsChildren, visit_Call ending without generic_visit
VisitsChildrenNotOfCalls(d, node) == node.type \notin {"Call", "Import", "ImportFrom"}

\* whether the visit goes on below the node: every visit_ method ends with
\* generic_visit, the two import methods of NetworkOps excepted, and so does
\* the default visit
VisitsChildren(d, node) == ~(d = "network_ops" /\ node.type \in {"Import", "ImportFrom"})

\* self.visit(node): the findings detector d appends at the node and below it
RECURSIVE VisitNode(_, _, _)
RECURSIVE VisitNodes(_, _, _, _)
VisitNode(d, node, line) ==
    VisitMethod(d, node, line)
    \o (IF VisitsChildren(d, node) THEN VisitNodes(d, Children(node), 1, line) ELSE <<>>)
VisitNodes(d, nodes, i, line) ==
    IF i > Len(nodes) THEN <<>>
    ELSE VisitNode(d, nodes[i], line) \o VisitNodes(d, nodes, i + 1, line)

\* self.visit(tree): the findings detector d appends, in statement order
RECURSIVE VisitFrom(_, _, _)
VisitFrom(d, stmts, i) ==
    IF i > Len(stmts) THEN <<>>
    ELSE VisitNode(d, stmts[i].node, i) \o VisitFrom(d, stmts, i + 1)

Visit(d, stmts) == VisitFrom(d, stmts, 1)

\* The outcome of a detect() call: the finding list it returns, or an
\* exception leaving it.
Returned(findings) == [raised |-> FALSE, findings |-> findings]
Raised == [raised |-> TRUE, findings |-> <<>>]

SyntaxErrorFinding(file) ==
    Finding(<<"SyntaxError">>, "Low", OrZero(file.lineno), OrZero(file.offset), <<>>)

DangerousCallsDetect(file) ==
    CASE file.parse = "ok" -> Returned(Visit("dangerous_calls", file.stmts))
      [] file.parse = "SyntaxError" -> Returned(<<SyntaxErrorFinding(file)>>)
      [] OTHER -> Raised

NetworkOpsDetect(file) ==
    CASE file.parse = "ok" -> Returned(Visit("network_ops", file.stmts))
      [] file.parse = "SyntaxError" -> Returned(<<>>)
      [] OTHER -> Raised

FileOpsDetect(file) ==
    CASE file.parse = "ok" -> Returned(Visit("file_ops", file.stmts))
      [] file.parse = "SyntaxError" -> Returned(<<>>)
      [] OTHER -> Raised

\* as ObfuscationDetect, the long-line pass placed after the try block
ObfuscationDetectLongLinesAlways(file) ==
    CASE file.parse = "ok" ->
            Returned(Visit("obfuscation", file.stmts)
                     \o CheckLongLines(file.stmts, 1))
      [] file.parse = "SyntaxError" -> Returned(CheckLongLines(file.stmts, 1))
      [] OTHER -> Raised

ObfuscationDetect(file) ==
    CASE file.parse = "ok" ->
            Returned(Visit("obfuscation", file.stmts)
                     \o CheckLongLines(file.stmts, 1))
      [] file.parse = "SyntaxError" -> Returned(<<>>)
      [] OTHER -> Raised

DataExfilDetect(file) ==
    CASE file.parse = "ok" -> Returned(Visit("data_exfil", file.stmts))
      [] file.parse = "SyntaxError" -> Returned(<<>>)
      [] OTHER -> Raised

Detectors == <<"dangerous_calls", "network_ops", "file_ops", "obfuscation", "data_exfil">>

Detect(d, file) ==
    CASE d = "dangerous_calls" -> DangerousCallsDetect(file)
      [] d = "network_ops" -> NetworkOpsDetect(file)
      [] d = "file_ops" -> FileOpsDetect(file)
      [] d = "obfuscation" -> ObfuscationDetect(file)
      [] d = "data_exfil" -> DataExfilDetect(file)

ToDict(d, f) ==
    [detector |-> d, name |-> f.name, severity |-> f.severity, line |-> f.line, col |-> f.col,
     details |-> f.details]

ToDicts(d, fs) == [i \in 1..Len(fs) |-> ToDict(d, fs[i])]

(***************************************************************************)
(* SkillScanner                                                            *)
(***************************************************************************)
severity_order == [Critical |-> 0, High |-> 1, Medium |-> 2, Low |-> 3]

\* _severity_sort_key: item.get('severity', '低'), then severity_order.get(.., 4)
SeveritySortKey(item) ==
    LET severity == IF "severity" \in DOMAIN item THEN item.severity ELSE "Low"
    IN  IF severity \in DOMAIN severity_order THEN severity_order[severity] ELSE 4

\* sorted(items, key=_severity_sort_key): a stable sort
\* as InsertByKey, the new item placed before the items of equal key
InsertByKeyBeforeTies(t, x) ==
    LET p == Cardinality({i \in 1..Len(t) : SeveritySortKey(t[i]) < SeveritySortKey(x)})
    IN  SubSeq(t, 1, p) \o <<x>> \o SubSeq(t, p + 1, Len(t))

InsertByKey(t, x) ==
    LET p == Cardinality({i \in 1..Len(t) : SeveritySortKey(t[i]) <= SeveritySortKey(x)})
    IN  SubSeq(t, 1, p) \o <<x>> \o SubSeq(t, p + 1, Len(t))

RECURSIVE SortedPrefix(_, _)
SortedPrefix(items, n) ==
    IF n = 0 THEN <<>> ELSE InsertByKey(SortedPrefix(items, n - 1), items[n])

Sorted(items) == SortedPrefix(items, Len(items))

\* The findings list of the latest instance of each detector class.
VARIABLE heap

\* as NewFindings, the list of the class's previous instance taken over
NewFindingsKept(d) == heap[d]

\* as NewFindings, the list of the first class of the pipeline taken over
NewFindingsShared(d) == heap[Detectors[1]]

\* __init__ of detector class d: self.findings = []
NewFindings(d) == <<>>

\* detect() on a new instance of class d: what Detect appends goes to the
\* instance's list, which is returned
DetectNew(d, file) ==
    LET r == Detect(d, file)
    IN  IF r.raised THEN Raised ELSE Returned(NewFindings(d) \o r.findings)

\* as RunDetectors, the detectors run from the last to the first
RECURSIVE RunDetectorsReversed(_, _)
RunDetectorsReversed(file, k) ==
    IF k > Len(Detectors) THEN Returned(<<>>)
    ELSE LET r == DetectNew(Detectors[k], file)
         IN  IF r.raised THEN Raised
             ELSE LET rest == RunDetectorsReversed(file, k + 1)
                  IN  IF rest.raised THEN Raised
                      ELSE Returned(rest.findings \o ToDicts(Detectors[k], r.findings))

\* as RunDetectors, each detector's list replacing what was gathered before
RECURSIVE RunDetectorsLastOnly(_, _)
RunDetectorsLastOnly(file, k) ==
    IF k > Len(Detectors) THEN Returned(<<>>)
    ELSE LET r == DetectNew(Detectors[k], file)
         IN  IF r.raised THEN Raised
             ELSE LET rest == RunDetectorsLastOnly(file, k + 1)
                  IN  IF rest.raised THEN Raised
                      ELSE Returned(IF k = Len(Detectors)
                                    THEN ToDicts(Detectors[k], r.findings)
                                    ELSE rest.findings)

\* _scan_file: [] when the file cannot be read; else the five detectors in
\* order, each finding converted by to_dict.  An exception leaving a detect()
\* call leaves _scan_file.
RECURSIVE RunDetectors(_, _)
RunDetectors(file, k) ==
    IF k > Len(Detectors) THEN Returned(<<>>)
    ELSE LET r == DetectNew(Detectors[k], file)
         IN  IF r.raised THEN Raised
             ELSE LET rest == RunDetectors(file, k + 1)
                  IN  IF rest.raised THEN Raised
                      ELSE Returned(ToDicts(Detectors[k], r.findings) \o rest.findings)

\* the findings lists once _scan_file(file) is over: the five instances are
\* built, then detect() is called on each in order until one raises
HeapAfter(file) ==
    IF file.read # "ok" THEN heap
    ELSE [d \in DOMAIN heap |->
            IF \E k \in 1..Len(Detectors) :
                    /\ Detectors[k] = d
                    /\ \A j \in 1..k : ~DetectNew(Detectors[j], file).raised
            THEN DetectNew(d, file).findings
            ELSE NewFindings(d)]

\* as ScanFileResult, without the try around read_text
ScanFileResultNoCatch(file) ==
    IF file.read # "ok" THEN Raised ELSE RunDetectors(file, 1)

ScanFileResult(file) ==
    IF file.read # "ok" THEN Returned(<<>>) ELSE RunDetectors(file, 1)

\* _get_skill_description: the manifest's description, cut at DescLimit
\* characters with '...' appended, or the placeholder.
GetSkillDescription(entry) ==
    IF entry.manifest = <<>>
    THEN [placeholder |-> TRUE, len |-> 4]
    ELSE LET n == entry.manifest[1]
         IN  [placeholder |-> FALSE, len |-> IF n > DescLimit THEN DescLimit + 3 ELSE n]

SkillResult(entry, findings) ==
    [skill |-> entry.name, description |-> GetSkillDescription(entry), findings |-> findings]

\* as NoScriptsResult, returning None (an empty mapping) for such a skill
NoScriptsResultNone(entry) == [k \in {} |-> k]

\* the result scan_skill returns for a skill without a scripts directory
NoScriptsResult(entry) == SkillResult(entry, <<>>)

\* as ScannedResult, the findings returned as gathered
ScannedResultUnsorted(entry, findings) == SkillResult(entry, findings)

\* the result scan_skill returns after the file loop
ScannedResult(entry, findings) == SkillResult(entry, Sorted(findings))

\* truth value of a dict: non-empty
Truthy(result) == DOMAIN result # {}

StartsWithDot(name) == Len(name) > 0 /\ name[1] = "."

\* as HasHighRisk, with '高' missing from the list
HasHighRiskCriticalOnly(rs) ==
    \E i \in 1..Len(rs) : \E j \in 1..Len(rs[i].findings) :
        rs[i].findings[j].severity \in {"Critical"}

\* any(f.get('severity') in ['严重', '高'] for r in results for f in r['findings'])
HasHighRisk(rs) ==
    \E i \in 1..Len(rs) : \E j \in 1..Len(rs[i].findings) :
        rs[i].findings[j].severity \in {"Critical", "High"}

(***************************************************************************)
(* The directory tree handed to the scanner.  tree.entries lists the root  *)
(* in the order iterdir() yields it; an entry is                           *)
(*   [name, isDir, hasScripts, manifest, files]                            *)
(* with manifest the length of SKILL.md's description (<<>>: no            *)
(* description) and files the *.py files of scripts/ in rglob order.       *)
(***************************************************************************)
Letters == <<"a", "b", "c", "d">>

Shape(isDir, hidden, hasScripts, manifest, files) ==
    [isDir |-> isDir, hidden |-> hidden, hasScripts |-> hasScripts,
     manifest |-> manifest, files |-> files]

ScriptSets ==
    {<<>>, <<F_clean>>, <<F_medium>>, <<F_high>>, <<F_mixed>>, <<F_syntax, F_long>>, <<F_deep>>}

\* the entries of a root with several skills
WideShapes ==
    {Shape(FALSE, FALSE, FALSE, <<>>, <<>>), Shape(TRUE, TRUE, TRUE, <<>>, <<F_mixed>>)}
    \cup {Shape(TRUE, FALSE, FALSE, m, <<>>) : m \in {<<>>, <<DescLimit>>, <<DescLimit + 1>>}}
    \cup {Shape(TRUE, FALSE, TRUE, <<>>, fs) : fs \in ScriptSets}

FileLists == UNION {[1..n -> FileCatalogue] : n \in 0..MaxFiles}

\* the entry of a root with one skill and up to MaxFiles script files
DeepShapes == {Shape(TRUE, FALSE, TRUE, <<DescLimit>>, fs) : fs \in FileLists}

EntryAt(i, shape) ==
    [name |-> IF shape.hidden THEN <<".", Letters[i]>> ELSE <<Letters[i]>>,
     isDir |-> shape.isDir, hasScripts |-> shape.hasScripts,
     manifest |-> shape.manifest, files |-> shape.files]

Root(shapes) == [exists |-> TRUE, entries |-> [i \in 1..Len(shapes) |-> EntryAt(i, shapes[i])]]

MissingRoot == [exists |-> FALSE, entries |-> <<>>]

Trees ==
    {MissingRoot}
    \cup {Root(ss) : ss \in UNION {[1..n -> WideShapes] : n \in 0..MaxSkills}}
    \cup {Root(<<s>>) : s \in DeepShapes}

\* --skill: <<>> when the option is absent
SkillArgs(t) == {<<>>, <<"z">>} \cup {t.entries[i].name : i \in 1..Len(t.entries)}

VARIABLES
    tree,          \* the directory tree (never written)
    args,          \* [skill]: the parsed command line
    pc,            \* position of the run
    skill_dirs,    \* scan_all: indices of the entries still to scan
    results,       \* the result list being built, then main's results
    cur,           \* scan_skill: index of the entry being scanned, 0 for none
    call,          \* 0: scan_skill called by scan_all; 1, 2: first and second call of main
    py_files,      \* scan_skill: files still to scan
    all_findings,  \* scan_skill: findings gathered so far
    report,        \* <<rs>> once print_results(rs) ran
    errors,        \* number of error messages printed
    scanned,       \* number of _scan_file calls made
    returned,      \* <<r>> once a scan_skill call returned r (the latest one)
    exit,          \* <<status>> once the process ended
    source,        \* the text the detectors are run on one by one (else empty)
    ran            \* the detect() calls made on source: [detector, raised, findings]

vars == <<tree, args, pc, skill_dirs, results, cur, call, py_files, all_findings,
          report, errors, scanned, returned, exit, heap, source, ran>>

Init ==
    /\ tree \in Trees
    /\ \E s \in SkillArgs(tree) : args = [skill |-> s]
    /\ pc = "main"
    /\ skill_dirs = <<>>
    /\ results = <<>>
    /\ cur = 0
    /\ call = 0
    /\ py_files = <<>>
    /\ all_findings = <<>>
    /\ report = <<>>
    /\ errors = 0
    /\ scanned = 0
    /\ returned = <<>>
    /\ exit = <<>>
    /\ heap = [d \in {Detectors[k] : k \in 1..Len(Detectors)} |-> <<>>]
    /\ source = Parsed(<<>>)
    /\ ran = <<>>

\* the entries named args.skill
Named == {i \in 1..Len(tree.entries) : tree.entries[i].name = args.skill}

\* skill_path.exists()
SkillPathExists == tree.exists /\ Named # {}

\* as MainSkillMissing, the message printed and main left by a plain return
MainSkillMissingReturn ==
    /\ pc = "main"
    /\ args.skill # <<>>
    /\ ~SkillPathExists
    /\ errors' = errors + 1
    /\ exit' = <<0>>
    /\ pc' = "exited"
    /\ UNCHANGED <<heap, source, ran>>
    /\ UNCHANGED <<tree, args, skill_dirs, results, cur, call, py_files, all_findings,
                   report, scanned, returned>>

\* main, --skill given, the path does not exist: message, sys.exit(1)
MainSkillMissing ==
    /\ pc = "main"
    /\ args.skill # <<>>
    /\ ~SkillPathExists
    /\ errors' = errors + 1
    /\ exit' = <<1>>
    /\ pc' = "exited"
    /\ UNCHANGED <<heap, source, ran>>
    /\ UNCHANGED <<tree, args, skill_dirs, results, cur, call, py_files, all_findings,
                   report, scanned, returned>>

\* main, --skill given: the first scan_skill call (the condition of the
\* conditional expression)
MainScanOne ==
    /\ pc = "main"
    /\ args.skill # <<>>
    /\ SkillPathExists
    /\ cur' = CHOOSE i \in Named : TRUE
    /\ call' = 1
    /\ pc' = "scan_skill"
    /\ UNCHANGED <<heap, source, ran>>
    /\ UNCHANGED <<tree, args, skill_dirs, results, py_files, all_findings,
                   report, errors, scanned, exit, returned>>

\* scan_all, root missing: message, return []
ScanAllMissingRoot ==
    /\ pc = "main"
    /\ args.skill = <<>>
    /\ ~tree.exists
    /\ errors' = errors + 1
    /\ results' = <<>>
    /\ pc' = "report"
    /\ UNCHANGED <<heap, source, ran>>
    /\ UNCHANGED <<tree, args, skill_dirs, cur, call, py_files, all_findings,
                   report, scanned, exit, returned>>

\* [d for d in iterdir() if d.is_dir() and not d.name.startswith('.')]
SkillDirs(t) ==
    SelectSeq([i \in 1..Len(t.entries) |-> i],
              LAMBDA i : t.entries[i].isDir /\ ~StartsWithDot(t.entries[i].name))

\* scan_all, root present: list the skill directories
ScanAllList ==
    /\ pc = "main"
    /\ args.skill = <<>>
    /\ tree.exists
    /\ skill_dirs' = SkillDirs(tree)
    /\ results' = <<>>
    /\ pc' = "scan_all"
    /\ UNCHANGED <<heap, source, ran>>
    /\ UNCHANGED <<tree, args, cur, call, py_files, all_findings,
                   report, errors, scanned, exit, returned>>

\* scan_all: the loop calls scan_skill on the next directory
ScanAllNext ==
    /\ pc = "scan_all"
    /\ skill_dirs # <<>>
    /\ cur' = Head(skill_dirs)
    /\ skill_dirs' = Tail(skill_dirs)
    /\ call' = 0
    /\ pc' = "scan_skill"
    /\ UNCHANGED <<heap, source, ran>>
    /\ UNCHANGED <<tree, args, results, py_files, all_findings,
                   report, errors, scanned, exit, returned>>

\* scan_skill returns result to its caller
Return(result) ==
    /\ returned' = <<result>>
    /\ IF call = 0
       THEN /\ results' = IF Truthy(result) THEN Append(results, result) ELSE results
            /\ pc' = "scan_all"
            /\ UNCHANGED call
       ELSE IF call = 1
       THEN IF Truthy(result)
            THEN /\ call' = 2
                 /\ pc' = "scan_skill"
                 /\ UNCHANGED results
            ELSE /\ results' = <<>>
                 /\ pc' = "report"
                 /\ UNCHANGED call
       ELSE /\ results' = <<result>>
            /\ pc' = "report"
            /\ UNCHANGED call

\* (skill_dir / 'scripts').exists()
ScriptsDirExists(entry) == entry.isDir /\ entry.hasScripts

\* scan_skill, no scripts directory
ScanSkillNoScripts ==
    /\ pc = "scan_skill"
    /\ ~ScriptsDirExists(tree.entries[cur])
    /\ Return(NoScriptsResult(tree.entries[cur]))
    /\ UNCHANGED <<heap, source, ran>>
    /\ UNCHANGED <<tree, args, skill_dirs, cur, py_files, all_findings,
                   report, errors, scanned, exit>>

\* scan_skill: list the script files
ScanSkillList ==
    /\ pc = "scan_skill"
    /\ ScriptsDirExists(tree.entries[cur])
    /\ py_files' = tree.entries[cur].files
    /\ all_findings' = <<>>
    /\ pc' = "scan_files"
    /\ UNCHANGED <<heap, source, ran>>
    /\ UNCHANGED <<tree, args, skill_dirs, results, cur, call,
                   report, errors, scanned, exit, returned>>

\* scan_skill: one turn of the file loop; an exception out of _scan_file is
\* caught nowhere and ends the process with a traceback and status 1
ScanFile ==
    /\ pc = "scan_files"
    /\ py_files # <<>>
    /\ scanned' = scanned + 1
    /\ LET r == ScanFileResult(Head(py_files))
       IN  IF r.raised
           THEN /\ pc' = "crashed"
                /\ exit' = <<1>>
                /\ UNCHANGED <<py_files, all_findings>>
           ELSE /\ all_findings' = all_findings \o r.findings
                /\ py_files' = Tail(py_files)
                /\ UNCHANGED <<pc, exit>>
    /\ heap' = HeapAfter(Head(py_files))
    /\ UNCHANGED <<source, ran>>
    /\ UNCHANGED <<tree, args, skill_dirs, results, cur, call, report, errors, returned>>

\* scan_skill: the file loop is over
ScanSkillReturn ==
    /\ pc = "scan_files"
    /\ py_files = <<>>
    /\ Return(ScannedResult(tree.entries[cur], all_findings))
    /\ UNCHANGED <<heap, source, ran>>
    /\ UNCHANGED <<tree, args, skill_dirs, cur, py_files, all_findings,
                   report, errors, scanned, exit>>

\* scan_all: the loop is over, return sorted(results, key=_severity_sort_key)
ScanAllReturn ==
    /\ pc = "scan_all"
    /\ skill_dirs = <<>>
    /\ results' = Sorted(results)
    /\ pc' = "report"
    /\ UNCHANGED <<heap, source, ran>>
    /\ UNCHANGED <<tree, args, skill_dirs, cur, call, py_files, all_findings,
                   report, errors, scanned, exit, returned>>

\* main: reporter.print_results(results)
PrintResults ==
    /\ pc = "report"
    /\ report' = <<results>>
    /\ pc' = "exit_code"
    /\ UNCHANGED <<heap, source, ran>>
    /\ UNCHANGED <<tree, args, skill_dirs, results, cur, call, py_files, all_findings,
                   errors, scanned, exit, returned>>

\* main: sys.exit(1) when a Critical or High finding exists, else the end of
\* main (status 0)
ExitCode ==
    /\ pc = "exit_code"
    /\ exit' = IF HasHighRisk(results) THEN <<1>> ELSE <<0>>
    /\ pc' = "exited"
    /\ UNCHANGED <<heap, source, ran>>
    /\ UNCHANGED <<tree, args, skill_dirs, results, cur, call, py_files, all_findings,
                   report, errors, scanned, returned>>

\* as Interrupt, the interrupt caught and what was gathered so far printed
InterruptPrintsGathered ==
    /\ pc \in {"scan_all", "scan_skill", "scan_files"}
    /\ report' = <<IF pc = "scan_files"
                   THEN Append(results, SkillResult(tree.entries[cur], all_findings))
                   ELSE results>>
    /\ exit' = <<130>>
    /\ pc' = "interrupted"
    /\ UNCHANGED <<heap, source, ran>>
    /\ UNCHANGED <<tree, args, skill_dirs, results, cur, call, py_files, all_findings,
                   errors, scanned, returned>>

\* the user interrupts the run while scan_all or scan_skill is at work:
\* KeyboardInterrupt is no Exception, so neither except clause of the
\* scanner catches it, and main has no handler; the process ends there
\* (status 130 to the shell) and print_results is never reached
Interrupt ==
    /\ pc \in {"scan_all", "scan_skill", "scan_files"}
    /\ exit' = <<130>>
    /\ pc' = "interrupted"
    /\ UNCHANGED <<heap, source, ran>>
    /\ UNCHANGED <<tree, args, skill_dirs, results, cur, call, py_files, all_findings,
                   report, errors, scanned, returned>>

Next ==
    \/ MainSkillMissing
    \/ MainScanOne
    \/ ScanAllMissingRoot
    \/ ScanAllList
    \/ ScanAllNext
    \/ ScanSkillNoScripts
    \/ ScanSkillList
    \/ ScanFile
    \/ ScanSkillReturn
    \/ ScanAllReturn
    \/ PrintResults
    \/ ExitCode
    \/ Interrupt

Spec == Init /\ [][Next]_vars

(***************************************************************************)
(* The detectors run one by one on one text, in any order and any number   *)
(* of them: each step builds an instance of a class not yet run and calls  *)
(* its detect().  An exception leaving detect() ends the run.              *)
(***************************************************************************)
InitDetectors ==
    /\ source \in Sources
    /\ ran = <<>>
    /\ heap = [d \in {Detectors[k] : k \in 1..Len(Detectors)} |-> <<>>]
    /\ pc = "detectors"
    /\ tree = MissingRoot
    /\ args = [skill |-> <<>>]
    /\ skill_dirs = <<>>
    /\ results = <<>>
    /\ cur = 0
    /\ call = 0
    /\ py_files = <<>>
    /\ all_findings = <<>>
    /\ report = <<>>
    /\ errors = 0
    /\ scanned = 0
    /\ returned = <<>>
    /\ exit = <<>>

\* detector = D(source_code, path); detector.detect()
RunDetector(d) ==
    /\ pc = "detectors"
    /\ \A i \in 1..Len(ran) : ran[i].detector # d /\ ~ran[i].raised
    /\ LET r == DetectNew(d, source)
       IN  /\ ran' = Append(ran, [detector |-> d, raised |-> r.raised, findings |-> r.findings])
           /\ heap' = IF r.raised THEN heap ELSE [heap EXCEPT ![d] = r.findings]
    /\ UNCHANGED <<source, tree, args, pc, skill_dirs, results, cur, call, py_files,
                   all_findings, report, errors, scanned, returned, exit>>

NextDetectors == \E d \in DOMAIN heap : RunDetector(d)

SpecDetectors == InitDetectors /\ [][NextDetectors]_vars

(***************************************************************************)
(* Properties                                                              *)
(***************************************************************************)
Rank(severity) ==
    CASE severity = "Critical" -> 0
      [] severity = "High" -> 1
      [] severity = "Medium" -> 2
      [] severity = "Low" -> 3

Severities == {"Critical", "High", "Medium", "Low"}

\* rank of the worst finding of a SkillResult, 4 for none
WorstRank(r) ==
    IF r.findings = <<>> THEN 4
    ELSE CHOOSE n \in 0..3 :
            /\ \E j \in 1..Len(r.findings) : Rank(r.findings[j].severity) = n
            /\ \A j \in 1..Len(r.findings) : Rank(r.findings[j].severity) >= n

SeveritiesOf(rs) ==
    UNION {{rs[i].findings[j].severity : j \in 1..Len(rs[i].findings)} : i \in 1..Len(rs)}

BagOf(seq) ==
    [x \in {seq[i] : i \in 1..Len(seq)} |-> Cardinality({i \in 1..Len(seq) : seq[i] = x})]

RECURSIVE Flatten(_)
Flatten(seqs) == IF seqs = <<>> THEN <<>> ELSE Head(seqs) \o Flatten(Tail(seqs))

\* main holds the result list
ResultListProduced == report # <<>> /\ pc = "exited"

\* a scan_skill call on entry cur has just returned: returned[1] is its
\* result and, if the skill has a scripts directory, all_findings is what
\* its file loop gathered
JustReturned ==
    /\ returned # <<>>
    /\ cur # 0
    /\ \/ pc \in {"scan_all", "report", "exit_code", "exited"}
       \/ pc = "scan_skill" /\ call = 2

ScannedSkill == JustReturned /\ ScriptsDirExists(tree.entries[cur])

\* every SkillResult obtained so far
Obtained ==
    {results[i] : i \in 1..Len(results)}
    \cup {returned[i] : i \in 1..Len(returned)}

\* C1: once the result list exists, the exit status is 1 exactly when some
\* finding of some skill is Critical or High, and 0 otherwise (in particular
\* for an empty list and for Medium/Low findings only).
C1_ExitStatus ==
    ResultListProduced =>
        exit = IF SeveritiesOf(results) \cap {"Critical", "High"} # {} THEN <<1>> ELSE <<0>>

C1_Witness ==
    /\ ResultListProduced
    /\ exit = <<1>>
    /\ "High" \in SeveritiesOf(results)
    /\ "Critical" \notin SeveritiesOf(results)

\* C2: the list scan_all returns is ordered by the rank of each skill's
\* worst finding: a skill listed earlier never has a worse rank number than
\* one listed later.
C2_SkillsByWorstSeverity ==
    (args.skill = <<>> /\ pc \in {"report", "exit_code", "exited"}) =>
        \A i, j \in 1..Len(results) :
            i < j => WorstRank(results[i]) <= WorstRank(results[j])

\* C3: scan-all on a missing root prints no report and ends with a non-zero
\* status.
C3_MissingRootFatal ==
    (args.skill = <<>> /\ ~tree.exists) =>
        /\ report = <<>>
        /\ exit # <<0>>

\* C4: the findings of every SkillResult scan_skill returned are in
\* non-decreasing severity rank.
C4_FindingsBySeverity ==
    \A r \in Obtained :
        \A i, j \in 1..Len(r.findings) :
            i < j => Rank(r.findings[i].severity) <= Rank(r.findings[j].severity)

C4_Witness ==
    /\ ScannedSkill
    /\ Len(returned[1].findings) >= 3
    /\ returned[1].findings # all_findings

\* C5 as stated: findings of equal severity are listed by (line, column)
\* ascending.
C5_TiesByLineAndColumn ==
    \A r \in Obtained :
        \A i, j \in 1..Len(r.findings) :
            (i < j /\ r.findings[i].severity = r.findings[j].severity) =>
                \/ r.findings[i].line < r.findings[j].line
                \/ /\ r.findings[i].line = r.findings[j].line
                   /\ r.findings[i].col <= r.findings[j].col

\* C5 as amended: findings of equal severity are listed in the order in which
\* the file loop gathered them, whatever their lines and columns.
C5_TiesInGatheredOrder ==
    ScannedSkill =>
        \A s \in Severities :
            SelectSeq(returned[1].findings, LAMBDA f : f.severity = s)
                = SelectSeq(all_findings, LAMBDA f : f.severity = s)

C5_Witness ==
    /\ ScannedSkill
    /\ \E i, j \in 1..Len(returned[1].findings) :
            /\ i < j
            /\ returned[1].findings[i].severity = returned[1].findings[j].severity
            /\ returned[1].findings[i].line > returned[1].findings[j].line

\* what a file that failed to parse is to contribute: the one synthetic finding
ParseErrorFinding(file) ==
    [detector |-> "dangerous_calls", name |-> <<"SyntaxError">>, severity |-> "Low",
     line |-> IF file.lineno = <<>> THEN 0 ELSE file.lineno[1],
     col |-> IF file.offset = <<>> THEN 0 ELSE file.offset[1],
     details |-> <<>>]

FailsToParse(file) == file.read = "ok" /\ file.parse = "SyntaxError"

C7_OneResultPerSkillDir ==
    (args.skill = <<>> /\ tree.exists /\ pc \in {"report", "exit_code", "exited"}) =>
        \A i \in 1..Len(tree.entries) :
            LET e == tree.entries[i]
                hits == {k \in 1..Len(results) : results[k].skill = e.name}
            IN  IF e.isDir /\ e.name[1] # "."
                THEN /\ Cardinality(hits) = 1
                     /\ ~e.hasScripts =>
                            \A k \in hits :
                                /\ results[k].findings = <<>>
                                /\ results[k].description = GetSkillDescription(e)
                ELSE hits = {}

C7_Witness ==
    /\ args.skill = <<>>
    /\ pc = "report"
    /\ Len(tree.entries) = 2
    /\ Len(results) = 1
    /\ \E i \in 1..2 :
            /\ tree.entries[i].isDir
            /\ tree.entries[i].name[1] # "."
            /\ ~tree.entries[i].hasScripts
            /\ tree.entries[i].manifest = <<DescLimit + 1>>
    /\ \E i \in 1..2 : tree.entries[i].name[1] = "."

\* the path named by --skill is absent
NoSuchSkill ==
    /\ args.skill # <<>>
    /\ ~tree.exists \/ \A i \in 1..Len(tree.entries) : tree.entries[i].name # args.skill

\* C8: scan-one on a path that does not exist ends with status 1, no file
\* scanned, no report printed.
C8_MissingSkillExits1 ==
    NoSuchSkill =>
        /\ pc \in {"main", "exited"}
        /\ pc = "exited" => exit = <<1>>
        /\ scanned = 0
        /\ report = <<>>

C8_Witness ==
    /\ NoSuchSkill
    /\ pc = "exited"
    /\ tree.exists
    /\ \E i \in 1..Len(tree.entries) : tree.entries[i].files # <<>>

Unreadable(file) == file.read # "ok"

\* C9: a file that cannot be read never ends the scan, and a returned
\* SkillResult holds exactly the findings of the skill's readable files.
C9_UnreadableFileSkipped ==
    /\ pc = "crashed" => ~Unreadable(Head(py_files))
    /\ ScannedSkill =>
            LET files == SelectSeq(tree.entries[cur].files, LAMBDA f : ~Unreadable(f))
            IN  BagOf(returned[1].findings)
                    = BagOf(Flatten([k \in 1..Len(files) |-> RunDetectors(files[k], 1).findings]))

C9_Witness ==
    /\ ScannedSkill
    /\ \E k \in 1..Len(tree.entries[cur].files) : Unreadable(tree.entries[cur].files[k])
    /\ returned[1].findings # <<>>

\* C10: no exception leaves a detect() call: whatever text was read, the scan
\* of the file ends with a finding list and the run is never ended by an
\* exception.
C10_NoExceptionFromDetectors == pc # "crashed"

(***************************************************************************)
(* Properties of the detectors                                             *)
(***************************************************************************)
\* detect() of detector d was called on source and returned
Ran(d) == \E i \in 1..Len(ran) : ran[i].detector = d /\ ~ran[i].raised

\* the list it returned
FoundBy(d) == ran[CHOOSE i \in 1..Len(ran) : ran[i].detector = d].findings

\* the findings of a list that carry one of the names, at a line and column
At(findings, names, line, col) ==
    SelectSeq(findings, LAMBDA f : f.name \in names /\ f.line = line /\ f.col = col)

\* the findings of a list that carry one of the names, at a line
AtLine(findings, names, line) ==
    SelectSeq(findings, LAMBDA f : f.name \in names /\ f.line = line)

\* the nodes at and below a node
RECURSIVE Below(_)
Below(node) ==
    {node} \cup UNION {Below(Children(node)[i]) : i \in 1..Len(Children(node))}

\* the call nodes of line i of source
CallsOfLine(i) == {n \in Below(source.stmts[i].node) : n.type = "Call"}

\* what a detector yields when it alone is run on source
Alone(d) == Detect(d, source).findings

\* C11: whichever detectors ran before it and in whichever order, the list a
\* detector returns for a text is the list it yields when run alone on the
\* text (so leaving out any other detector changes neither its findings nor
\* their number), and once all five ran their findings taken together are
\* those of the pipeline's order.
C11_DetectorsIndependent ==
    /\ \A i \in 1..Len(ran) : ~ran[i].raised => ran[i].findings = Alone(ran[i].detector)
    /\ (Len(ran) = Len(Detectors) /\ \A i \in 1..Len(ran) : ~ran[i].raised) =>
            BagOf(Flatten([i \in 1..Len(ran) |-> ran[i].findings]))
                = BagOf(Flatten([k \in 1..Len(Detectors) |-> Alone(Detectors[k])]))

C11_Witness ==
    /\ Len(ran) = Len(Detectors)
    /\ \E i, j \in 1..Len(ran) :
            /\ i < j
            /\ ran[i].detector = "network_ops" /\ ran[i].findings # <<>>
            /\ ran[j].detector = "dangerous_calls" /\ ran[j].findings # <<>>

\* what one scan of a skill's script files yields when every file is given
\* detector instances of its own
FreshScan(entry) ==
    Flatten([k \in 1..Len(entry.files) |->
        IF entry.files[k].read # "ok" THEN <<>>
        ELSE Flatten([j \in 1..Len(Detectors) |->
                ToDicts(Detectors[j], Detect(Detectors[j], entry.files[k]).findings)])])

\* C12: every result scan_skill returns holds, sorted, exactly what one scan
\* with new detector instances per file yields (nothing of an earlier file or
\* an earlier scan is added), and in scan-one mode the result reported after
\* the two scan_skill calls is that of a single scan.
C12_ScanRepeatable ==
    /\ ScannedSkill => returned[1].findings = Sorted(FreshScan(tree.entries[cur]))
    /\ (args.skill # <<>> /\ pc \in {"report", "exit_code", "exited"} /\ cur # 0) =>
            /\ Len(results) = 1
            /\ results[1].skill = args.skill
            /\ ScriptsDirExists(tree.entries[cur]) =>
                    results[1].findings = Sorted(FreshScan(tree.entries[cur]))

C12_Witness ==
    /\ args.skill # <<>>
    /\ pc = "report"
    /\ scanned = 4
    /\ Len(results) = 1
    /\ Len(results[1].findings) >= 2

\* the calls of line i whose resolved name is a key of the rule table
KeyedCalls(i) == {c \in CallsOfLine(i) : InTable(DANGEROUS_FUNCTIONS, GetFunctionName(c))}

\* C13: DangerousCalls returns, for every line, exactly one finding per call
\* node of the line (at any depth) whose resolved name is a key of the rule
\* table, carrying the name, the entry's severity, the line and the call's
\* column, and no other finding; eval(user_input) alone on line 5 gives the
\* one Critical finding eval at line 5.
C13_OneFindingPerKeyedCall ==
    (Ran("dangerous_calls") /\ source.parse = "ok") =>
        LET findings == FoundBy("dangerous_calls")
        IN  /\ \A k \in 1..Len(findings) : findings[k].line \in 1..Len(source.stmts)
            /\ \A i \in 1..Len(source.stmts) :
                /\ Len(SelectSeq(findings, LAMBDA f : f.line = i)) = Cardinality(KeyedCalls(i))
                /\ \A c \in KeyedCalls(i) :
                        Cardinality({k \in 1..Len(findings) :
                            /\ findings[k].line = i
                            /\ findings[k].col = c.col
                            /\ findings[k].name = GetFunctionName(c)
                            /\ findings[k].severity
                                    = Lookup(DANGEROUS_FUNCTIONS, GetFunctionName(c))}) = 1
            /\ source = D_eval5 =>
                    /\ Len(findings) = 1
                    /\ findings[1].name = <<"eval">>
                    /\ findings[1].severity = "Critical"
                    /\ findings[1].line = 5

C13_Witness ==
    /\ Ran("dangerous_calls")
    /\ \E i \in 1..Len(source.stmts) :
            /\ Cardinality(KeyedCalls(i)) = 3
            /\ Len(SelectSeq(FoundBy("dangerous_calls"), LAMBDA f : f.line = i)) = 3
            /\ \E c \in KeyedCalls(i) : c \notin {source.stmts[i].node.value}

\* the calls of line i that open a file named by a string literal
OpensOfLine(i) ==
    {c \in CallsOfLine(i) :
        /\ GetFunctionName(c) \in {<<"open">>, <<"Path", "open">>}
        /\ c.args # <<>>
        /\ c.args[1].type = "Constant"
        /\ c.args[1].kind = "str"}

\* the table entries that are substrings of the lower-cased, home-expanded path
EntriesIn(path) ==
    {k \in DOMAIN SENSITIVE_PATTERNS :
        Contains(ExpandUser(Lower(path)), Lower(SENSITIVE_PATTERNS[k][1]))}

\* the sensitive_file findings FileOps returned for a call of line i
SensitiveFileAt(i, c) == At(FoundBy("file_ops"), {<<"sensitive_file">>}, i, c.col)

\* C14: for an open / Path.open call on a string literal FileOps returns no
\* sensitive_file finding when no table entry is in the lower-cased,
\* home-expanded path, and else exactly one, with the severity and the
\* description of the first such entry of the table, whatever the severity of
\* the later ones; open("~/.ssh/id_rsa") gives one Critical finding whose
\* detail mentions SSH.
C14_FirstTableEntryWins ==
    (Ran("file_ops") /\ source.parse = "ok") =>
        \A i \in 1..Len(source.stmts) : \A c \in OpensOfLine(i) :
            LET path == c.args[1].value
                found == EntriesIn(path)
                first == CHOOSE k \in found : \A j \in found : k <= j
                fs == SensitiveFileAt(i, c)
            IN  /\ found = {} => fs = <<>>
                /\ found # {} =>
                        /\ Len(fs) = 1
                        /\ fs[1].severity = SENSITIVE_PATTERNS[first][3]
                        /\ fs[1].details = <<SENSITIVE_PATTERNS[first][2], path>>
                /\ path = "~/.ssh/id_rsa" =>
                        /\ Len(fs) = 1
                        /\ fs[1].severity = "Critical"
                        /\ Contains(fs[1].details[1], "SSH")

C14_Witness ==
    /\ Ran("file_ops")
    /\ \E i \in 1..Len(source.stmts) : \E c \in OpensOfLine(i) :
            /\ \E k, j \in EntriesIn(c.args[1].value) :
                    /\ k < j
                    /\ SENSITIVE_PATTERNS[k][3] = "Medium"
                    /\ SENSITIVE_PATTERNS[j][3] = "High"
            /\ Len(SensitiveFileAt(i, c)) = 1
            /\ SensitiveFileAt(i, c)[1].severity = "Medium"

\* C15: an open() of a literal path under ~/.claude/ or ~/.config/ in which
\* no earlier table entry is found gives one sensitive_file finding, High for
\* ~/.claude/ and Medium for ~/.config/.
C15_HomeEntriesMatched ==
    (Ran("file_ops") /\ source.parse = "ok") =>
        \A i \in 1..Len(source.stmts) : \A c \in OpensOfLine(i) :
            \A k \in {n \in DOMAIN SENSITIVE_PATTERNS :
                        SENSITIVE_PATTERNS[n][1] \in {"~/.claude/", "~/.config/"}} :
                LET path == c.args[1].value
                    entry == SENSITIVE_PATTERNS[k]
                IN  (/\ Len(path) >= Len(entry[1])
                     /\ SubSeq(path, 1, Len(entry[1])) = entry[1]
                     /\ EntriesIn(path) \cap 1..(k - 1) = {}) =>
                        /\ Len(SensitiveFileAt(i, c)) = 1
                        /\ SensitiveFileAt(i, c)[1].severity = entry[3]

\* the environment reads of line i: the calls os.getenv(k) and
\* os.environ.get(k), and the subscripts os.environ[k]; EnvKey is the key
\* expression of one
EnvReadsOfLine(i) ==
    {n \in Below(source.stmts[i].node) :
        \/ /\ n.type = "Call"
           /\ GetFunctionName(n) \in {<<"os", "getenv">>, <<"os", "environ", "get">>}
           /\ n.args # <<>>
        \/ /\ n.type = "Subscript"
           /\ n.value = Dotted(<<"os", "environ">>)}

EnvKey(n) == IF n.type = "Call" THEN n.args[1] ELSE n.slice

\* the key is a string literal whose lower-cased text contains a keyword
SensitiveLiteral(key) ==
    /\ key.type = "Constant"
    /\ key.kind = "str"
    /\ \E kw \in {"key", "secret", "token", "password", "credential",
                  "api", "aws", "ssh", "private", "auth"} : Contains(Lower(key.value), kw)

\* C16: for every environment read, FileOps returns exactly one env_access
\* finding, of severity High and at the read, when the key is a string
\* literal whose lower-cased text contains one of the ten keywords, and none
\* otherwise (a key that is no literal included); no other env_access finding
\* is returned.
C16_EnvAccessIffSensitiveKey ==
    (Ran("file_ops") /\ source.parse = "ok") =>
        LET findings == FoundBy("file_ops")
        IN  \A i \in 1..Len(source.stmts) :
                /\ \A n \in EnvReadsOfLine(i) :
                        LET fs == At(findings, {<<"env_access">>}, i, n.col)
                        IN  IF SensitiveLiteral(EnvKey(n))
                            THEN Len(fs) = 1 /\ fs[1].severity = "High"
                            ELSE fs = <<>>
                /\ Len(AtLine(findings, {<<"env_access">>}, i))
                        = Cardinality({n \in EnvReadsOfLine(i) : SensitiveLiteral(EnvKey(n))})

C16_Witness ==
    /\ Ran("file_ops")
    /\ \E i, j \in 1..Len(source.stmts) :
            /\ \E n \in EnvReadsOfLine(i) :
                    /\ n.type = "Subscript"
                    /\ Len(At(FoundBy("file_ops"), {<<"env_access">>}, i, n.col)) = 1
            /\ \E n \in EnvReadsOfLine(j) :
                    /\ n.type = "Call"
                    /\ SensitiveLiteral(EnvKey(n))
                    /\ Lower(EnvKey(n).value) # EnvKey(n).value
                    /\ Len(At(FoundBy("file_ops"), {<<"env_access">>}, j, n.col)) = 1
    /\ \E i \in 1..Len(source.stmts) : \E n \in EnvReadsOfLine(i) :
            EnvKey(n).type = "Name"

\* re.search finds one of the three suspicious-URL patterns in the text
SuspiciousUrl(url) == SearchIpUrl(url) \/ SearchPortUrl(url) \/ SearchOnionUrl(url)

\* the string literals among the positional arguments of a call
LiteralArgs(c) == {k \in 1..Len(c.args) : c.args[k].type = "Constant" /\ c.args[k].kind = "str"}

\* C17: for every call of a line, whatever its callee, and every positional
\* string-literal argument in which a suspicious-URL pattern is found,
\* NetworkOps returns a Medium suspicious_url finding of that line showing
\* the literal.
C17_EveryLiteralArgumentTested ==
    (Ran("network_ops") /\ source.parse = "ok") =>
        \A i \in 1..Len(source.stmts) : \A c \in CallsOfLine(i) : \A k \in LiteralArgs(c) :
            SuspiciousUrl(c.args[k].value) =>
                \E n \in 1..Len(FoundBy("network_ops")) :
                    LET f == FoundBy("network_ops")[n]
                    IN  /\ f.name = <<"suspicious_url">>
                        /\ f.severity = "Medium"
                        /\ f.line = i
                        /\ f.details[2] = c.args[k].value

\* the module names of `import ...` that NetworkOps reports
ImportedNetworkModules == {"socket", "http", "ftplib", "smtplib"}

\* the modules of `from ... import` that NetworkOps reports
FromNetworkModules == {"socket", "urllib", "http", "requests", "httpx"}

\* the findings NetworkOps returned for line i
NetworkAtLine(i) == SelectSeq(FoundBy("network_ops"), LAMBDA f : f.line = i)

\* C18 as stated: an import statement gives exactly one Low finding when it
\* names a networking module, however many it names, and none otherwise.
C18_OneFindingPerImportStatement ==
    (Ran("network_ops") /\ source.parse = "ok") =>
        \A i \in 1..Len(source.stmts) :
            LET st == source.stmts[i].node
            IN  st.type = "Import" =>
                    Len(NetworkAtLine(i))
                        = IF \E k \in 1..Len(st.names) : st.names[k] \in ImportedNetworkModules
                          THEN 1 ELSE 0

\* C18 as amended: an import statement gives one Low finding for each of the
\* names socket, http, ftplib, smtplib it lists, in the order listed and
\* naming the module, and none when it lists none of them; a from-import
\* gives one Low finding when its module is one of socket, urllib, http,
\* requests, httpx, and none otherwise.
C18_OneFindingPerImportedModule ==
    (Ran("network_ops") /\ source.parse = "ok") =>
        \A i \in 1..Len(source.stmts) :
            LET st == source.stmts[i].node
                fs == NetworkAtLine(i)
            IN  /\ st.type = "Import" =>
                    LET listed == SelectSeq(st.names, LAMBDA nm : nm \in ImportedNetworkModules)
                    IN  /\ Len(fs) = Len(listed)
                        /\ \A k \in 1..Len(fs) :
                                fs[k].severity = "Low" /\ fs[k].details = <<listed[k]>>
                /\ st.type = "ImportFrom" =>
                    IF st.module # <<>> /\ st.module[1] \in FromNetworkModules
                    THEN Len(fs) = 1 /\ fs[1].severity = "Low" /\ fs[1].details = st.module
                    ELSE fs = <<>>

C18_Witness ==
    /\ Ran("network_ops")
    /\ \E i \in 1..Len(source.stmts) :
            /\ source.stmts[i].node.type = "Import"
            /\ Len(source.stmts[i].node.names) = 2
            /\ Len(NetworkAtLine(i)) = 2

\* the requests.post / requests.put / requests.patch calls of line i
HttpSendsOfLine(i) ==
    {c \in CallsOfLine(i) : c.func \in {Dotted(<<"requests", "post">>),
                                        Dotted(<<"requests", "put">>),
                                        Dotted(<<"requests", "patch">>)}}

\* the data= and json= keyword arguments of a call, by position
Payload(c) == {k \in 1..Len(c.keywords) : c.keywords[k].arg \in {"data", "json"}}

\* those of them that are a bare identifier naming sensitive data
SensitivePayload(c) ==
    {k \in Payload(c) :
        /\ c.keywords[k].value.type = "Name"
        /\ \E kw \in {"password", "token", "key", "secret", "credential"} :
                Contains(Lower(c.keywords[k].value.id), kw)}

\* the HTTP findings DataExfiltration returned for a call of line i
HttpFindings(i, c) ==
    At(FoundBy("data_exfil"), {<<"http_exfil">>, <<"http_data_send">>}, i, c.col)

\* C19: for each requests.post/put/patch call DataExfiltration returns, when
\* a data= or json= keyword is a bare identifier whose lower-cased name
\* contains password, token, key, secret or credential, the one finding
\* Critical http_exfil naming the first such variable; otherwise, when a
\* data= or json= keyword is present, the one finding Medium http_data_send;
\* otherwise none. No other call gets either finding.
C19_OneHttpFindingPerCall ==
    (Ran("data_exfil") /\ source.parse = "ok") =>
        \A i \in 1..Len(source.stmts) : \A c \in CallsOfLine(i) :
            LET fs == HttpFindings(i, c)
            IN  IF c \notin HttpSendsOfLine(i) THEN fs = <<>>
                ELSE IF SensitivePayload(c) # {}
                THEN LET first == CHOOSE k \in SensitivePayload(c) :
                                      \A j \in SensitivePayload(c) : k <= j
                     IN  /\ Len(fs) = 1
                         /\ fs[1].name = <<"http_exfil">>
                         /\ fs[1].severity = "Critical"
                         /\ fs[1].details = <<c.keywords[first].value.id>>
                ELSE IF Payload(c) # {}
                THEN /\ Len(fs) = 1
                     /\ fs[1].name = <<"http_data_send">>
                     /\ fs[1].severity = "Medium"
                ELSE fs = <<>>

C19_Witness ==
    /\ Ran("data_exfil")
    /\ \E i \in 1..Len(source.stmts) : \E c \in HttpSendsOfLine(i) :
            /\ Payload(c) = {1, 2}
            /\ SensitivePayload(c) = {2}
            /\ Len(HttpFindings(i, c)) = 1
            /\ HttpFindings(i, c)[1].severity = "Critical"

\* the targets of an assignment that are a name which, lower-cased, is one of
\* the four suspicious identifiers
SuspiciousTargets(st) ==
    SelectSeq(st.targets,
              LAMBDA t : /\ t.type = "Name"
                         /\ Lower(t.id) \in {"webhook_url", "exfil_url", "c2_url", "remote_url"})

\* the suspicious_var findings DataExfiltration returned for line i
SuspiciousVars(i) == AtLine(FoundBy("data_exfil"), {<<"suspicious_var">>}, i)

\* C20: for an assignment statement DataExfiltration returns one High
\* suspicious_var finding for each target that is a name which, lower-cased,
\* is webhook_url, exfil_url, c2_url or remote_url, naming the target as
\* written and in target order, whatever else it reports for the statement;
\* it returns none for an assignment to other names and none for a
\* statement that is no assignment.
C20_SuspiciousVarPerTarget ==
    (Ran("data_exfil") /\ source.parse = "ok") =>
        \A i \in 1..Len(source.stmts) :
            LET st == source.stmts[i].node
                fs == SuspiciousVars(i)
            IN  IF st.type = "Assign"
                THEN /\ Len(fs) = Len(SuspiciousTargets(st))
                     /\ \A k \in 1..Len(fs) :
                            /\ fs[k].severity = "High"
                            /\ fs[k].details = <<SuspiciousTargets(st)[k].id>>
                ELSE fs = <<>>

C20_Witness ==
    /\ Ran("data_exfil")
    /\ \E i \in 1..Len(source.stmts) :
            /\ source.stmts[i].node.type = "Assign"
            /\ Len(SuspiciousVars(i)) = 1
            /\ SuspiciousVars(i)[1].details = <<"Webhook_URL">>
            /\ AtLine(FoundBy("data_exfil"), {<<"http_exfil">>}, i) # <<>>

\* the first non-blank character of line i, "" for a blank line
FirstNonBlank(i) ==
    LET head == source.stmts[i].head
    IN  IF Ch(head, Len(head)) \in Whitespace THEN "" ELSE Ch(head, Len(head))

\* the long_line findings Obfuscation returned for line i
LongLines(i) == AtLine(FoundBy("obfuscation"), {<<"long_line">>}, i)

\* C21: in a text that parses Obfuscation returns, for every line longer
\* than 200 characters whose first non-blank character is not '#', one Low
\* long_line finding at column 0 that holds the length of the line, and no
\* long_line finding for a line of 200 characters or fewer or for a
\* comment line.
C21_LongLinesOver200 ==
    (Ran("obfuscation") /\ source.parse = "ok") =>
        /\ \A i \in 1..Len(source.stmts) :
                LongLines(i) =
                    IF source.stmts[i].len > 200 /\ FirstNonBlank(i) # "#"
                    THEN <<Finding(<<"long_line">>, "Low", i, 0, <<source.stmts[i].len>>)>>
                    ELSE <<>>
        /\ \A n \in 1..Len(FoundBy("obfuscation")) :
                FoundBy("obfuscation")[n].name = <<"long_line">>
                    => FoundBy("obfuscation")[n].line \in 1..Len(source.stmts)

C21_Witness ==
    /\ Ran("obfuscation")
    /\ \E i, j, k, m \in 1..Len(source.stmts) :
            /\ source.stmts[i].len = 200 /\ FirstNonBlank(i) # "#" /\ LongLines(i) = <<>>
            /\ source.stmts[j].len = 201 /\ Len(LongLines(j)) = 1
            /\ source.stmts[k].len = 250 /\ LongLines(k)[1].details = <<250>>
            /\ source.stmts[m].len > 250 /\ FirstNonBlank(m) = "#" /\ LongLines(m) = <<>>

\* chr(...chr(x)...): calls of the bare name chr nested inside one another
RECURSIVE ChrNest(_)
ChrNest(node) ==
    /\ node.type = "Call"
    /\ node.func = Name("chr")
    /\ node.keywords = <<>>
    /\ Len(node.args) = 1
    /\ node.args[1].type = "Name" \/ ChrNest(node.args[1])

\* the multiple_chr findings Obfuscation returned for line i
MultipleChr(i) == AtLine(FoundBy("obfuscation"), {<<"multiple_chr">>}, i)

\* C22: a statement that is chr() calls nested inside one another, however
\* deep, gets at most one multiple_chr finding.
C22_NestedChrCountedOnce ==
    (Ran("obfuscation") /\ source.parse = "ok") =>
        \A i \in 1..Len(source.stmts) :
            LET st == source.stmts[i].node
            IN  (st.type = "Expr" /\ ChrNest(st.value)) => Len(MultipleChr(i)) <= 1

\* every finding of a list at a line and column, the long_line findings of
\* the whole-text pass left out
AtCall(findings, line, col) ==
    SelectSeq(findings,
              LAMBDA f : f.line = line /\ f.col = col /\ f.name # <<"long_line">>)

\* C23: once the five detectors ran on a text, a call of the bare name
\* compile has exactly two findings at its line and column: a Critical one
\* named compile from DangerousCalls and a High one named compile_call from
\* Obfuscation.
C23_CompileFoundTwice ==
    ((\A k \in 1..Len(Detectors) : Ran(Detectors[k])) /\ source.parse = "ok") =>
        \A i \in 1..Len(source.stmts) : \A c \in CallsOfLine(i) :
            c.func = Name("compile") =>
                /\ \E f \in {FoundBy("dangerous_calls")[n] :
                                n \in 1..Len(FoundBy("dangerous_calls"))} :
                        /\ AtCall(FoundBy("dangerous_calls"), i, c.col) = <<f>>
                        /\ f.name = <<"compile">>
                        /\ f.severity = "Critical"
                /\ \E f \in {FoundBy("obfuscation")[n] : n \in 1..Len(FoundBy("obfuscation"))} :
                        /\ AtCall(FoundBy("obfuscation"), i, c.col) = <<f>>
                        /\ f.name = <<"compile_call">>
                        /\ f.severity = "High"
                /\ \A d \in {"network_ops", "file_ops", "data_exfil"} :
                        AtCall(FoundBy(d), i, c.col) = <<>>

C23_Witness ==
    /\ \A k \in 1..Len(Detectors) : Ran(Detectors[k])
    /\ \E i \in 1..Len(source.stmts) : \E c \in CallsOfLine(i) :
            /\ c.func = Name("compile")
            /\ c.col > 0
            /\ source.stmts[i].node.type = "Expr"
            /\ Len(AtCall(FoundBy("dangerous_calls"), i, c.col)) = 1
            /\ Len(AtCall(FoundBy("obfuscation"), i, c.col)) = 1
            /\ AtCall(FoundBy("dangerous_calls"), i, 0) # <<>>

\* the unqualified entries of the DangerousCalls table
UnqualifiedEntries ==
    {<<"eval">>, <<"exec">>, <<"compile">>, <<"__import__">>,
     <<"globals">>, <<"locals">>, <<"vars">>}

\* C26: every DangerousCalls finding that carries the name of an unqualified
\* table entry belongs to a call, at its line and column, whose callee is
\* that bare identifier; a method call on another expression (f().eval(x),
\* items[0].exec(x)) gives no such finding.
C26_UnqualifiedEntriesBareOnly ==
    (Ran("dangerous_calls") /\ source.parse = "ok") =>
        \A n \in 1..Len(FoundBy("dangerous_calls")) :
            LET f == FoundBy("dangerous_calls")[n]
            IN  f.name \in UnqualifiedEntries =>
                    \E c \in CallsOfLine(f.line) :
                        c.col = f.col /\ c.func = Name(f.name[1])

\* the calls of the bare name chr at and below a node
BareChrCalls(node) == {n \in Below(node) : n.type = "Call" /\ n.func = Name("chr")}

\* the calls of line i that are due a multiple_chr finding: calls of the
\* bare name chr with more than 3 such calls at and below them
ChrHeavyCalls(i) ==
    {c \in CallsOfLine(i) : c.func = Name("chr") /\ Cardinality(BareChrCalls(c)) > 3}

\* C29: the multiple_chr findings of a line are one for each call of the
\* bare name chr with more than 3 calls of the bare name chr at and below
\* it, at the column of that call, and no others; four chr calls side by
\* side get none.
C29_MultipleChrAtBareChrOnly ==
    (Ran("obfuscation") /\ source.parse = "ok") =>
        \A i \in 1..Len(source.stmts) :
            /\ Len(MultipleChr(i)) = Cardinality(ChrHeavyCalls(i))
            /\ {MultipleChr(i)[n].col : n \in 1..Len(MultipleChr(i))}
                    = {c.col : c \in ChrHeavyCalls(i)}

(***************************************************************************)
(* Properties of the aggregation                                           *)
(***************************************************************************)
\* the place of the directory of a name in the listing of the root
Discovered(name) == CHOOSE i \in 1..Len(tree.entries) : tree.entries[i].name = name

\* C24: in the list scan_all returns, two SkillResults whose worst findings
\* have the same rank stand in the order in which iterdir() listed their
\* directories.
C24_SkillTiesInDiscoveryOrder ==
    (args.skill = <<>> /\ pc \in {"report", "exit_code", "exited"}) =>
        \A i, j \in 1..Len(results) :
            (i < j /\ WorstRank(results[i]) = WorstRank(results[j])) =>
                Discovered(results[i].skill) < Discovered(results[j].skill)

C24_Witness ==
    /\ args.skill = <<>>
    /\ report # <<>>
    /\ Len(report[1]) = 2
    /\ WorstRank(report[1][1]) = WorstRank(report[1][2])
    /\ WorstRank(report[1][1]) < 4
    /\ Discovered(report[1][1].skill) < Discovered(report[1][2].skill)

\* the run was ended while the scan was under way, by an exception or by
\* the user
Aborted == pc \in {"crashed", "interrupted"}

\* what the files of the skill of a name yield, file by file
FindingsOfSkill(name) ==
    LET entry == tree.entries[Discovered(name)]
    IN  IF ScriptsDirExists(entry)
        THEN Flatten([k \in 1..Len(entry.files) |-> ScanFileResult(entry.files[k]).findings])
        ELSE <<>>

\* C25: a run that was ended during the scan has printed no report; a
\* report is printed only when no skill and no file is left to scan, and
\* every SkillResult in it holds the findings of all files of its skill.
C25_NoPartialResultPrinted ==
    /\ Aborted => report = <<>>
    /\ report # <<>> =>
            /\ skill_dirs = <<>>
            /\ py_files = <<>>
            /\ \A k \in 1..Len(report[1]) :
                    BagOf(report[1][k].findings) = BagOf(FindingsOfSkill(report[1][k].skill))

\* the run was interrupted within the second skill, after one file of it
C25_Witness ==
    /\ pc = "interrupted"
    /\ report = <<>>
    /\ results # <<>>
    /\ results[1].findings # <<>>
    /\ all_findings # <<>>
    /\ py_files # <<>>

\* C27: among the findings of one severity a returned SkillResult keeps the
\* order of the scan: the files in the order of the listing of scripts/,
\* for each file the detectors in the order dangerous_calls, network_ops,
\* file_ops, obfuscation, data_exfil, for each detector the order in which
\* it returned them; line numbers play no part.
C27_TiesByFileThenDetector ==
    ScannedSkill =>
        \A s \in Severities :
            SelectSeq(returned[1].findings, LAMBDA f : f.severity = s)
                = SelectSeq(FreshScan(tree.entries[cur]), LAMBDA f : f.severity = s)

C27_Witness ==
    /\ ScannedSkill
    /\ Len(tree.entries[cur].files) = 2
    /\ \E i, j \in 1..Len(returned[1].findings) :
            /\ i < j
            /\ returned[1].findings[i].severity = returned[1].findings[j].severity
            /\ returned[1].findings[i].detector = "dangerous_calls"
            /\ returned[1].findings[j].detector = "obfuscation"
            /\ returned[1].findings[i].line > returned[1].findings[j].line

RECURSIVE Sum(_)
Sum(ns) == IF ns = <<>> THEN 0 ELSE Head(ns) + Sum(Tail(ns))

\* the number of findings the detect() calls on the readable files of an
\* entry returned
ReturnedByDetectors(entry) ==
    Sum([k \in 1..Len(entry.files) |->
            IF Unreadable(entry.files[k]) THEN 0
            ELSE Sum([j \in 1..Len(Detectors) |->
                        Len(Detect(Detectors[j], entry.files[k]).findings)])])

\* C28: the findings of a returned SkillResult are, as a bag, the findings
\* the detect() calls of the five detectors on the skill's readable files
\* returned, each once, and their number is the sum of the lengths of the
\* returned lists.
C28_AggregationKeepsFindings ==
    ScannedSkill =>
        /\ BagOf(returned[1].findings) = BagOf(FreshScan(tree.entries[cur]))
        /\ Len(returned[1].findings) = ReturnedByDetectors(tree.entries[cur])

\* two files gave the same finding, and the result holds it twice
C28_Witness ==
    /\ ScannedSkill
    /\ Len(tree.entries[cur].files) = 2
    /\ Len(returned[1].findings) >= 4
    /\ \E i, j \in 1..Len(returned[1].findings) :
            i < j /\ returned[1].findings[i] = returned[1].findings[j]

\* every script file of the entry is read and fails to parse
AllFailToParse(entry) ==
    /\ ScriptsDirExists(entry)
    /\ entry.files # <<>>
    /\ \A k \in 1..Len(entry.files) :
            entry.files[k].read = "ok" /\ entry.files[k].parse # "ok"

\* C30: a skill all of whose script files fail to parse, scanned alone (the
\* only entry of the root, scanned by scan-all or named by --skill), has
\* only Low findings in every result obtained for it, and the process ends
\* with status 0.
C30_UnparsedFilesOnlyLow ==
    (/\ Len(tree.entries) = 1
     /\ AllFailToParse(tree.entries[1])
     /\ args.skill \in {<<>>, tree.entries[1].name}) =>
        /\ \A r \in Obtained : \A k \in 1..Len(r.findings) : r.findings[k].severity = "Low"
        /\ pc \in {"exited", "crashed"} => exit = <<0>>

====
